---------------------------- MODULE Spec2Model ----------------------------
(***************************************************************************)
(* State-machine model of the social-net agents: User, UserPosts, Post,   *)
(* TimelinesUpdater, UserTimeline, UserChats and Chat.  Every agent       *)
(* serialises access to its own state; agents talk through one-way         *)
(* triggers that are delivered at least once and in any order.  A trigger  *)
(* in flight is an element of a bag; delivering it runs the whole handler. *)
(***************************************************************************)
EXTENDS Integers, Sequences, FiniteSets, Bags, TLC

(***************************************************************************)
(* Bounds of the model.                                                    *)
(***************************************************************************)
\* client connect_user / disconnect_user calls
MaxUserCalls == 2
\* duplicate deliveries of a trigger (at-least-once delivery)
MaxDup == 1

\* chats created through UserChats::create_chat
MaxChats == 1
\* client add_participants / add_message calls on Chat agents
MaxChatCalls == 2
\* largest reading of the wall clock
MaxClock == 1

\* ids of the User agents
Users == {"u1", "u2"}
\* user ids that own a UserChats agent and may take part in chats; the ids
\* in Users also create chats and write messages
ChatUsers == {"u1", "u2", "u3"}
\* ids minted for chats (uuid v4 in the code: always fresh)
ChatIdOf == <<"c1", "c2", "c3">>
ChatIds == {ChatIdOf[i] : i \in 1..MaxChats}

\* posts created through UserPosts::create_post
MaxPosts == 2
\* comments added to posts through add_comment
MaxComments == 4
\* client calls in all (connect_user, create_post, add_comment) in the
\* behaviours of the post pipeline
MaxPostCalls == 3
\* client calls in all in the behaviours with every kind of trigger
MaxDupCalls == 2
\* client calls in all in the behaviours of the TimelinesUpdater
MaxUpdaterCalls == 4
\* add_comment and add_message calls each while a post and a chat are filled
MaxCapCalls == 2001
\* client calls in all in the behaviours with init_post and init_chat called
\* again
MaxReinitCalls == 4
\* client calls made in the behaviours of the like operations
MaxLikeCalls == 4
\* the largest max_wait_time, the largest iter_wait_time and the longest
\* fetch of a long poll, in the unit of its arguments
MaxWait == 3
MaxIterWait == 2
MaxFetchTime == 1
\* clock readings while a timeline is filled
MaxFill == 501
\* ids minted for posts (uuid v4 in the code: always fresh); the id minted
\* for a comment is its number, commentsMade + 1
PostIdOf == <<"p1", "p2", "p3">>
PostIds == {PostIdOf[i] : i \in 1..MaxPosts}

\* post/mod.rs: COMMENTS_MAX_COUNT
COMMENTS_MAX_COUNT == 2000

\* chat/mod.rs: MAX_CHAT_LENGTH
MAX_CHAT_LENGTH == 2000

\* common/mod.rs: enum UserConnectionType
UserConnectionType == {"Friend", "Follower", "Following"}

VARIABLES
    user,        \* user[a]: Option<User> of UserAgentImpl a, <<>> is None
    userMsgs,    \* bag of connect_user / disconnect_user triggers in flight
    userCalls,   \* number of client calls made on User agents
    dups,        \* number of duplicate deliveries made
    callLog,     \* history: the client calls made on User agents, in order
    now,         \* the wall clock read by chrono::Utc::now()
    chat,        \* chat[c]: Option<Chat> of ChatAgentImpl c
    userChats,   \* userChats[u]: Option<UserChats> of UserChatsAgentImpl u
    chatMsgs,    \* bag of init_chat / add_chat / chat_updated triggers in flight
    chatsMade,   \* number of chat ids minted
    chatCalls,   \* number of client calls made on Chat agents
    chatResult,  \* the Result returned by the latest client call on a Chat
                 \* agent, None before the first
    post,        \* post[p]: Option<Post> of PostAgentImpl p
    userPosts,   \* userPosts[u]: Option<UserPosts> of UserPostsAgentImpl u
    updater,     \* updater[u]: PostUpdates of TimelinesUpdaterAgentImpl u
    timeline,    \* timeline[u]: Option<UserTimeline> of UserTimelineAgentImpl u
    postMsgs,    \* bag of init_post / post_updated / posts_updated triggers
    postsMade,   \* number of post ids minted
    commentsMade,\* number of comment ids minted
    postResult,  \* the Result returned by the latest client call on a Post
                 \* agent, None before the first
    carried,     \* history of the updates for post p delivered to timeline
                 \* u: carried[u][p].latest is the updated_at carried by the
                 \* latest one, carried[u][p].held the updated_at carried by
                 \* the one the entry of p in the timeline was built from
    userChatsResult, \* the Result returned by the latest client call on a
                 \* UserChats agent, None before the first
    userResult,  \* the Result returned by the latest client call of
                 \* set_name or set_email on a User agent, None before the first
    likeCalls,   \* number of client calls of remove_message and of the like
                 \* operations made on Post and Chat agents
    poll,        \* the long poll in progress: its arguments, the time elapsed,
                 \* the fetches made and, once it has returned, its result
    snapshot,    \* the latest load_snapshot call on a Post agent: the bytes
                 \* given and the outcome, None before the first
    call         \* the latest call of a function of common/mod.rs or of a
                 \* query matcher: its arguments and what it returned

userVars == <<user, userMsgs, userCalls, callLog>>
chatVars == <<chat, userChats, chatMsgs, chatsMade, chatCalls, chatResult>>
postVars == <<post, userPosts, updater, timeline, postMsgs, postsMade,
              commentsMade, postResult, carried>>
resultVars == <<userChatsResult, userResult, likeCalls>>
commonVars == <<poll, snapshot, call>>
notUserVars == <<now, chatVars, postVars, resultVars, commonVars>>
notChatVars == <<userVars, postVars, resultVars, commonVars>>
notPostVars == <<userVars, chatVars, resultVars, commonVars>>
vars == <<user, userMsgs, userCalls, dups, callLog, now,
          chat, userChats, chatMsgs, chatsMade, chatCalls, chatResult,
          post, userPosts, updater, timeline, postMsgs, postsMade,
          commentsMade, postResult, carried, userChatsResult, userResult,
          likeCalls, poll, snapshot, call>>

(***************************************************************************)
(* Option<T>: None is the empty tuple, Some(x) the one-element tuple.      *)
(***************************************************************************)
None == <<>>
Some(x) == <<x>>
IsSome(o) == o # <<>>
Unwrap(o) == o[1]

\* Result<T, String>; unit is the Ok value of Result<(), String>
unit == 0
Ok(x) == <<"Ok", x>>
Err(e) == <<"Err", e>>
is_ok(r) == r[1] = "Ok"

(***************************************************************************)
(* UserConnectionType::get_opposite                                        *)
(***************************************************************************)
\* as get_opposite, with the mirror carrying the type unchanged
get_opposite_mirror_same(t) == t

get_opposite(t) ==
    CASE t = "Follower" -> "Following"
      [] t = "Following" -> "Follower"
      [] t = "Friend" -> "Friend"

(***************************************************************************)
(* User: connected_users is a map peer id -> set of connection types.      *)
(* HashMap::get / contains_key is membership in DOMAIN.                    *)
(***************************************************************************)
User_new ==
    [name |-> None, email |-> None, connected_users |-> <<>>,
     created_at |-> now, updated_at |-> now]

\* UserAgentImpl::get_state: get_or_insert(User::new(id))
User_get_state(a) == IF IsSome(user[a]) THEN Unwrap(user[a]) ELSE User_new

has_connection_type(c, t) == t \in c

\* as User::connect_user, with the entry only modified and never inserted
User_connect_user_no_insert(self_id, state, user_id, t) ==
    IF user_id = self_id
    THEN [state |-> state, result |-> FALSE]
    ELSE LET cu == state.connected_users
             should_connect ==
                 \/ user_id \notin DOMAIN cu
                 \/ ~has_connection_type(cu[user_id], t)
         IN  IF should_connect
             THEN [state |-> [state EXCEPT !.connected_users =
                                [p \in DOMAIN cu |->
                                    IF p = user_id THEN cu[p] \cup {t} ELSE cu[p]],
                                     !.updated_at = now],
                   result |-> TRUE]
             ELSE [state |-> state, result |-> FALSE]

\* as User::connect_user, without the test of the agent's own id
User_connect_user_self_allowed(self_id, state, user_id, t) ==
    LET cu == state.connected_users
        should_connect ==
            \/ user_id \notin DOMAIN cu
            \/ ~has_connection_type(cu[user_id], t)
    IN  IF should_connect
        THEN [state |-> [state EXCEPT !.connected_users =
                           [p \in DOMAIN cu \cup {user_id} |->
                               IF p = user_id
                               THEN IF p \in DOMAIN cu
                                    THEN cu[p] \cup {t}
                                    ELSE {t}
                               ELSE cu[p]],
                                !.updated_at = now],
              result |-> TRUE]
        ELSE [state |-> state, result |-> FALSE]

\* User::connect_user: the new state and the returned bool
User_connect_user(self_id, state, user_id, t) ==
    IF user_id = self_id
    THEN [state |-> state, result |-> FALSE]
    ELSE LET cu == state.connected_users
             should_connect ==
                 \/ user_id \notin DOMAIN cu
                 \/ ~has_connection_type(cu[user_id], t)
         IN  IF should_connect
             THEN [state |-> [state EXCEPT !.connected_users =
                                [p \in DOMAIN cu \cup {user_id} |->
                                    IF p = user_id
                                    THEN IF p \in DOMAIN cu
                                         THEN cu[p] \cup {t}
                                         ELSE {t}
                                    ELSE cu[p]],
                                     !.updated_at = now],
                   result |-> TRUE]
             ELSE [state |-> state, result |-> FALSE]

\* User::disconnect_user: the new state and the returned bool
User_disconnect_user(self_id, state, user_id, t) ==
    IF user_id = self_id
    THEN [state |-> state, result |-> FALSE]
    ELSE LET cu == state.connected_users
             should_disconnect ==
                 /\ user_id \in DOMAIN cu
                 /\ has_connection_type(cu[user_id], t)
         IN  IF should_disconnect
             THEN [state |-> [state EXCEPT !.connected_users =
                                IF Cardinality(cu[user_id]) = 1
                                THEN [p \in DOMAIN cu \ {user_id} |-> cu[p]]
                                ELSE [cu EXCEPT ![user_id] = @ \ {t}],
                                     !.updated_at = now],
                   result |-> TRUE]
             ELSE [state |-> state, result |-> FALSE]

(***************************************************************************)
(* Triggers between User agents.                                           *)
(***************************************************************************)
UserTrigger(to, op, user_id, t) ==
    [to |-> to, op |-> op, user_id |-> user_id, connection_type |-> t]

UserTriggers ==
    [to : Users, op : {"connect_user", "disconnect_user"},
     user_id : Users, connection_type : UserConnectionType]

\* UserAgentImpl::connect_user on agent a; sends the mirror trigger to the peer
UserAgent_connect_user(a, user_id, t, inflight) ==
    LET r == User_connect_user(a, User_get_state(a), user_id, t)
    IN  /\ user' = [user EXCEPT ![a] = Some(r.state)]
        /\ userMsgs' =
             IF r.result
             THEN inflight (+) SetToBag({UserTrigger(user_id, "connect_user", a,
                                                     get_opposite(t))})
             ELSE inflight

\* UserAgentImpl::disconnect_user on agent a
UserAgent_disconnect_user(a, user_id, t, inflight) ==
    LET r == User_disconnect_user(a, User_get_state(a), user_id, t)
    IN  /\ user' = [user EXCEPT ![a] = Some(r.state)]
        /\ userMsgs' =
             IF r.result
             THEN inflight (+) SetToBag({UserTrigger(user_id, "disconnect_user", a,
                                                     get_opposite(t))})
             ELSE inflight

UserAgent_handle(a, op, user_id, t, inflight) ==
    IF op = "connect_user"
    THEN UserAgent_connect_user(a, user_id, t, inflight)
    ELSE UserAgent_disconnect_user(a, user_id, t, inflight)

(***************************************************************************)
(* Actions on User agents.                                                 *)
(***************************************************************************)
\* a client calls connect_user(user_id, t) on agent a
ClientConnectUser(a, user_id, t) ==
    /\ userCalls < MaxUserCalls
    /\ userCalls' = userCalls + 1
    /\ UserAgent_connect_user(a, user_id, t, userMsgs)
    /\ UNCHANGED dups

\* a client calls disconnect_user(user_id, t) on agent a
ClientDisconnectUser(a, user_id, t) ==
    /\ userCalls < MaxUserCalls
    /\ userCalls' = userCalls + 1
    /\ UserAgent_disconnect_user(a, user_id, t, userMsgs)
    /\ UNCHANGED dups

\* the runtime delivers trigger m and retires it
DeliverUserTrigger(m) ==
    /\ BagIn(m, userMsgs)
    /\ UserAgent_handle(m.to, m.op, m.user_id, m.connection_type,
                        userMsgs (-) SetToBag({m}))
    /\ UNCHANGED <<userCalls, dups, callLog, notUserVars>>

\* the runtime delivers trigger m and will deliver it again
RedeliverUserTrigger(m) ==
    /\ BagIn(m, userMsgs)
    /\ dups < MaxDup
    /\ dups' = dups + 1
    /\ UserAgent_handle(m.to, m.op, m.user_id, m.connection_type, userMsgs)
    /\ UNCHANGED <<userCalls, callLog, notUserVars>>

\* every agent as constructed, no poll in progress, no snapshot loaded
InitAgents ==
    /\ user = [a \in Users |-> None]
    /\ userMsgs = EmptyBag
    /\ userCalls = 0
    /\ dups = 0
    /\ callLog = <<>>
    /\ now = 0
    /\ chat = [c \in ChatIds |-> None]
    /\ userChats = [u \in ChatUsers |-> None]
    /\ chatMsgs = EmptyBag
    /\ chatsMade = 0
    /\ chatCalls = 0
    /\ chatResult = None
    /\ post = [p \in PostIds |-> None]
    /\ userPosts = [u \in Users |-> None]
    /\ updater = [u \in Users |-> [updates |-> <<>>, updated_at |-> 0]]
    /\ timeline = [u \in Users |-> None]
    /\ postMsgs = EmptyBag
    /\ postsMade = 0
    /\ commentsMade = 0
    /\ postResult = None
    /\ carried = [u \in Users |-> <<>>]
    /\ userChatsResult = None
    /\ userResult = None
    /\ likeCalls = 0
    /\ poll = None
    /\ snapshot = None

Init == InitAgents /\ call = None

NextUser ==
    \/ \E a \in Users, b \in Users, t \in UserConnectionType :
          ClientConnectUser(a, b, t) /\ UNCHANGED <<callLog, notUserVars>>
    \/ \E a \in Users, b \in Users, t \in UserConnectionType :
          ClientDisconnectUser(a, b, t) /\ UNCHANGED <<callLog, notUserVars>>
    \/ \E m \in UserTriggers : DeliverUserTrigger(m)
    \/ \E m \in UserTriggers : RedeliverUserTrigger(m)

SpecUser == Init /\ [][NextUser]_vars

(***************************************************************************)
(* The same behaviours with the client calls recorded in callLog.          *)
(***************************************************************************)
ClientCall(a, op, user_id, t) ==
    [on |-> a, op |-> op, user_id |-> user_id, connection_type |-> t]

NextUserHist ==
    \/ \E a \in Users, b \in Users, t \in UserConnectionType :
          /\ ClientConnectUser(a, b, t)
          /\ callLog' = Append(callLog, ClientCall(a, "connect_user", b, t))
          /\ UNCHANGED <<notUserVars>>
    \/ \E a \in Users, b \in Users, t \in UserConnectionType :
          /\ ClientDisconnectUser(a, b, t)
          /\ callLog' = Append(callLog, ClientCall(a, "disconnect_user", b, t))
          /\ UNCHANGED <<notUserVars>>
    \/ \E m \in UserTriggers : DeliverUserTrigger(m)
    \/ \E m \in UserTriggers : RedeliverUserTrigger(m)

SpecUserHist == Init /\ [][NextUserHist]_vars

(***************************************************************************)
(* Views of the User state used by the properties.                         *)
(***************************************************************************)
\* the connection types agent a records for peer b (empty when no entry)
ConnectionTypes(a, b) ==
    IF IsSome(user[a]) /\ b \in DOMAIN Unwrap(user[a]).connected_users
    THEN Unwrap(user[a]).connected_users[b]
    ELSE {}

HasEntry(a, b) ==
    IsSome(user[a]) /\ b \in DOMAIN Unwrap(user[a]).connected_users

NoUserTriggerInFlight == userMsgs = EmptyBag

(***************************************************************************)
(* C1: whenever no connect_user / disconnect_user trigger is in flight,    *)
(* for all distinct users a, b and every connection type T, T is in a's    *)
(* type set for b iff opposite(T) is in b's type set for a, where Friend   *)
(* is its own opposite and Follower and Following are each other's.        *)
(***************************************************************************)
C1_SymmetricWhenQuiescent ==
    NoUserTriggerInFlight =>
        \A a \in Users, b \in Users :
            a # b =>
                /\ "Friend" \in ConnectionTypes(a, b)
                       <=> "Friend" \in ConnectionTypes(b, a)
                /\ "Follower" \in ConnectionTypes(a, b)
                       <=> "Following" \in ConnectionTypes(b, a)
                /\ "Following" \in ConnectionTypes(a, b)
                       <=> "Follower" \in ConnectionTypes(b, a)

\* a quiescent state reached after mirroring in which an edge is recorded
C1_Witness ==
    /\ NoUserTriggerInFlight
    /\ userCalls >= 2
    /\ \E a \in Users, b \in Users :
          /\ a # b
          /\ "Follower" \in ConnectionTypes(a, b)
          /\ "Following" \in ConnectionTypes(b, a)

(***************************************************************************)
(* Fair delivery: a trigger in flight is eventually delivered.             *)
(***************************************************************************)
FairUserDelivery == \A m \in UserTriggers : WF_vars(DeliverUserTrigger(m))

SpecUserLive == Init /\ [][NextUser]_vars /\ FairUserDelivery

(***************************************************************************)
(* C2: a connect_user(b, T) call on a (a # b) that newly records T puts    *)
(* the mirror trigger connect_user(a, opposite(T)) for b in flight, and    *)
(* under fair delivery b eventually has opposite(T) in its type set for a. *)
(***************************************************************************)
C2_MirroredEdgeLiveness ==
    /\ [][\A a \in Users, b \in Users, t \in UserConnectionType :
            (a # b /\ t \notin ConnectionTypes(a, b) /\ ClientConnectUser(a, b, t))
                => /\ t \in ConnectionTypes(a, b)'
                   /\ BagIn(UserTrigger(b, "connect_user", a, get_opposite(t)),
                            userMsgs')]_vars
    /\ \A a \in Users, b \in Users, t \in UserConnectionType :
          (a # b /\ BagIn(UserTrigger(b, "connect_user", a, get_opposite(t)), userMsgs))
              ~> (get_opposite(t) \in ConnectionTypes(b, a))

\* one client call, Follower on a, has been mirrored as Following on b
C2_Witness ==
    /\ userCalls = 1
    /\ \E a \in Users, b \in Users :
          /\ a # b
          /\ ConnectionTypes(a, b) = {"Follower"}
          /\ ConnectionTypes(b, a) = {"Following"}

(***************************************************************************)
(* C3: after connect_user(b, T) followed by disconnect_user(b, T) on a     *)
(* (a # b) and no further client call, T is absent from a's type set for   *)
(* b, b's entry is absent when no type remains, and this stays so in       *)
(* every later state, whatever mirror triggers are delivered.              *)
(***************************************************************************)
C3_DisconnectedStaysDisconnected ==
    \A a \in Users, b \in Users, t \in UserConnectionType :
        (/\ a # b
         /\ callLog = <<ClientCall(a, "connect_user", b, t),
                        ClientCall(a, "disconnect_user", b, t)>>)
            => /\ t \notin ConnectionTypes(a, b)
               /\ (ConnectionTypes(a, b) = {} => ~HasEntry(a, b))

(***************************************************************************)
(* Chat and UserChats.                                                     *)
(***************************************************************************)
\* the wall clock advances between handler runs
Tick ==
    /\ now < MaxClock
    /\ now' = now + 1
    /\ UNCHANGED <<dups, userVars, chatVars, postVars, resultVars, commonVars>>

\* ChatRef
ChatRef(chat_id, created_at, updated_at) ==
    [chat_id |-> chat_id, created_at |-> created_at, updated_at |-> updated_at]

\* ChatRef::new
ChatRef_new(chat_id) == ChatRef(chat_id, now, now)

\* UserChats::new
UserChats_new == [chats |-> <<>>, updated_at |-> now]

\* UserChatsAgentImpl::get_state
UserChats_get_state(u) ==
    IF IsSome(userChats[u]) THEN Unwrap(userChats[u]) ELSE UserChats_new

\* state.chats.iter().any(|c| c.chat_id == chat_id)
contains_chat(chats, chat_id) ==
    \E i \in 1..Len(chats) : chats[i].chat_id = chat_id

\* state.chats.iter_mut().find(|m| m.chat_id == chat_id): the first match
find_chat(chats, chat_id) ==
    CHOOSE i \in 1..Len(chats) :
        /\ chats[i].chat_id = chat_id
        /\ \A j \in 1..(i - 1) : chats[j].chat_id # chat_id

\* Chat::new
Chat_new ==
    [created_by |-> "", participants |-> {}, messages |-> <<>>,
     created_at |-> now, updated_at |-> now]

\* triggers
InitChatTrigger(c, participants_ids, created_by, created_at) ==
    [op |-> "init_chat", to |-> c, participants_ids |-> participants_ids,
     created_by |-> created_by, created_at |-> created_at]

AddChatTrigger(u, chat_id, created_by, created_at) ==
    [op |-> "add_chat", to |-> u, chat_id |-> chat_id,
     created_by |-> created_by, created_at |-> created_at]

ChatUpdatedTrigger(u, chat_id, updated_at) ==
    [op |-> "chat_updated", to |-> u, chat_id |-> chat_id, updated_at |-> updated_at]

\* execute_chat_updates: one chat_updated trigger per participant
execute_chat_updates(chat_id, participants_ids, updated_at) ==
    SetToBag({ChatUpdatedTrigger(p, chat_id, updated_at) : p \in participants_ids})

\* execute_add_chat: one add_chat trigger per participant other than the creator
execute_add_chat(chat_id, created_by, created_at, participants_ids) ==
    SetToBag({AddChatTrigger(p, chat_id, created_by, created_at) :
                 p \in participants_ids \ {created_by}})

\* UserChatsAgentImpl::create_chat, a client call on agent u
CreateChat(u, participants_ids) ==
    LET state == UserChats_get_state(u)
        ids == {id \in participants_ids : id # u}
        chat_id == ChatIdOf[chatsMade + 1]
        chat_ref == ChatRef_new(chat_id)
    IN  /\ chatsMade < MaxChats
        /\ IF ids = {}
           THEN /\ userChats' = [userChats EXCEPT ![u] = Some(state)]
                /\ UNCHANGED <<chatMsgs, chatsMade>>
           ELSE /\ chatsMade' = chatsMade + 1
                /\ chatMsgs' = chatMsgs (+) SetToBag(
                       {InitChatTrigger(chat_id, ids, u, chat_ref.created_at)})
                /\ userChats' = [userChats EXCEPT ![u] = Some(
                       [chats |-> Append(state.chats, chat_ref),
                        updated_at |-> chat_ref.created_at])]
        /\ UNCHANGED <<chat, chatCalls, chatResult, dups, now, notChatVars>>

\* as ChatAgentImpl::init_chat, without the test of the number of participants
ChatAgent_init_chat_any_size(state, m) ==
    LET participants_ids == m.participants_ids \cup {m.created_by}
    IN  IF IsSome(state)
        THEN [state |-> state, sent |-> EmptyBag,
              result |-> Err("Chat already exists")]
        ELSE [state |-> Some(
                    [Chat_new EXCEPT !.created_by = m.created_by,
                                     !.participants = participants_ids,
                                     !.created_at = m.created_at,
                                     !.updated_at = m.created_at]),
              sent |-> execute_add_chat(m.to, m.created_by, m.created_at,
                                        participants_ids),
              result |-> Ok(unit)]

\* as ChatAgentImpl::init_chat, asking for three participants
ChatAgent_init_chat_needs_three(state, m) ==
    LET participants_ids == m.participants_ids \cup {m.created_by}
    IN  IF IsSome(state)
        THEN [state |-> state, sent |-> EmptyBag,
              result |-> Err("Chat already exists")]
        ELSE IF Cardinality(participants_ids) < 3
        THEN [state |-> state, sent |-> EmptyBag,
              result |-> Err("Chat must have at least 2 participants")]
        ELSE [state |-> Some(
                    [Chat_new EXCEPT !.created_by = m.created_by,
                                     !.participants = participants_ids,
                                     !.created_at = m.created_at,
                                     !.updated_at = m.created_at]),
              sent |-> execute_add_chat(m.to, m.created_by, m.created_at,
                                        participants_ids),
              result |-> Ok(unit)]

\* as ChatAgentImpl::init_chat, the creator not added to the participants
ChatAgent_init_chat_without_creator(state, m) ==
    LET participants_ids == m.participants_ids
    IN  IF IsSome(state)
        THEN [state |-> state, sent |-> EmptyBag,
              result |-> Err("Chat already exists")]
        ELSE IF Cardinality(participants_ids) < 2
        THEN [state |-> state, sent |-> EmptyBag,
              result |-> Err("Chat must have at least 2 participants")]
        ELSE [state |-> Some(
                    [Chat_new EXCEPT !.created_by = m.created_by,
                                     !.participants = participants_ids,
                                     !.created_at = m.created_at,
                                     !.updated_at = m.created_at]),
              sent |-> execute_add_chat(m.to, m.created_by, m.created_at,
                                        participants_ids),
              result |-> Ok(unit)]

\* ChatAgentImpl::init_chat on the agent's state: the new state, the
\* triggers sent and the Result
ChatAgent_init_chat(state, m) ==
    LET participants_ids == m.participants_ids \cup {m.created_by}
    IN  IF IsSome(state)
        THEN [state |-> state, sent |-> EmptyBag,
              result |-> Err("Chat already exists")]
        ELSE IF Cardinality(participants_ids) < 2
        THEN [state |-> state, sent |-> EmptyBag,
              result |-> Err("Chat must have at least 2 participants")]
        ELSE [state |-> Some(
                    [Chat_new EXCEPT !.created_by = m.created_by,
                                     !.participants = participants_ids,
                                     !.created_at = m.created_at,
                                     !.updated_at = m.created_at]),
              sent |-> execute_add_chat(m.to, m.created_by, m.created_at,
                                        participants_ids),
              result |-> Ok(unit)]

\* ChatAgentImpl::init_chat run for trigger m; inflight is what stays in flight
Chat_init_chat(m, inflight) ==
    LET r == ChatAgent_init_chat(chat[m.to], m)
    IN  /\ chat' = [chat EXCEPT ![m.to] = r.state]
        /\ chatMsgs' = inflight (+) r.sent

\* a client calls init_chat(participants_ids, created_by, now) on chat c
ClientInitChat(c, participants_ids, created_by) ==
    /\ chatCalls < MaxChatCalls
    /\ chatCalls' = chatCalls + 1
    /\ Chat_init_chat(InitChatTrigger(c, participants_ids, created_by, now),
                      chatMsgs)
    /\ chatResult' = Some(ChatAgent_init_chat(
           chat[c], InitChatTrigger(c, participants_ids, created_by, now)).result)
    /\ UNCHANGED <<userChats, chatsMade, dups, now, notChatVars>>

\* as UserChatsAgentImpl::add_chat, without the test that the chat is absent
UserChatsAgent_add_chat_always_push(m) ==
    LET state == UserChats_get_state(m.to)
    IN  IF m.created_by = m.to
        THEN [state |-> state, result |-> Err("Chat created by current user")]
        ELSE [state |-> [chats |-> Append(state.chats,
                                      ChatRef(m.chat_id, m.created_at, m.created_at)),
                         updated_at |-> IF state.updated_at < m.created_at
                                        THEN m.created_at
                                        ELSE state.updated_at],
              result |-> Ok(unit)]

\* UserChatsAgentImpl::add_chat with the arguments of m on agent m.to: the
\* state it leaves and the Result it returns
UserChatsAgent_add_chat(m) ==
    LET state == UserChats_get_state(m.to)
    IN  IF m.created_by = m.to
        THEN [state |-> state, result |-> Err("Chat created by current user")]
        ELSE IF ~contains_chat(state.chats, m.chat_id)
             THEN [state |-> [chats |-> Append(state.chats,
                                    ChatRef(m.chat_id, m.created_at, m.created_at)),
                              updated_at |-> IF state.updated_at < m.created_at
                                             THEN m.created_at
                                             ELSE state.updated_at],
                   result |-> Ok(unit)]
             ELSE [state |-> state, result |-> Ok(unit)]

\* UserChatsAgentImpl::add_chat run for trigger m
UserChats_add_chat(m) == Some(UserChatsAgent_add_chat(m).state)

\* UserChatsAgentImpl::add_chat, a client call on agent u
ClientAddChat(u, chat_id, created_by, created_at) ==
    LET r == UserChatsAgent_add_chat(
                 AddChatTrigger(u, chat_id, created_by, created_at))
    IN  /\ userChats' = [userChats EXCEPT ![u] = Some(r.state)]
        /\ userChatsResult' = Some(r.result)
        /\ UNCHANGED <<chat, chatMsgs, chatsMade, chatCalls, chatResult, dups,
                       now, userVars, postVars, userResult, likeCalls,
                       commonVars>>

\* UserChatsAgentImpl::chat_updated run for trigger m
UserChats_chat_updated(m) ==
    LET state == UserChats_get_state(m.to)
    IN  IF contains_chat(state.chats, m.chat_id)
        THEN Some([chats |-> [state.chats EXCEPT
                                 ![find_chat(state.chats, m.chat_id)].updated_at =
                                     m.updated_at],
                   updated_at |-> IF state.updated_at < m.updated_at
                                  THEN m.updated_at
                                  ELSE state.updated_at])
        ELSE Some(state)

\* the handler of trigger m, run with inflight left in flight
ChatTrigger_handle(m, inflight) ==
    CASE m.op = "init_chat" ->
            /\ Chat_init_chat(m, inflight)
            /\ UNCHANGED userChats
      [] m.op = "add_chat" ->
            /\ userChats' = [userChats EXCEPT ![m.to] = UserChats_add_chat(m)]
            /\ chatMsgs' = inflight
            /\ UNCHANGED chat
      [] m.op = "chat_updated" ->
            /\ userChats' = [userChats EXCEPT ![m.to] = UserChats_chat_updated(m)]
            /\ chatMsgs' = inflight
            /\ UNCHANGED chat

\* the runtime delivers trigger m and retires it
DeliverChatTrigger(m) ==
    /\ BagIn(m, chatMsgs)
    /\ ChatTrigger_handle(m, chatMsgs (-) SetToBag({m}))
    /\ UNCHANGED <<chatsMade, chatCalls, chatResult, dups, now, notChatVars>>

\* the runtime delivers trigger m and will deliver it again
RedeliverChatTrigger(m) ==
    /\ BagIn(m, chatMsgs)
    /\ dups < MaxDup
    /\ dups' = dups + 1
    /\ ChatTrigger_handle(m, chatMsgs)
    /\ UNCHANGED <<chatsMade, chatCalls, chatResult, now, notChatVars>>

\* as ChatAgentImpl::add_participants, with chat_updated sent to every
\* participant, the new ones included
AddParticipants_notify_all(c, participants_ids) ==
    /\ chatCalls < MaxChatCalls
    /\ chatCalls' = chatCalls + 1
    /\ IF ~IsSome(chat[c])
       THEN /\ chatResult' = Some(Err("Chat not exists"))
            /\ UNCHANGED <<chat, chatMsgs>>
       ELSE LET state == Unwrap(chat[c])
                new_participants_ids ==
                    {id \in participants_ids : id \notin state.participants}
            IN  IF new_participants_ids = {}
                THEN /\ chatResult' = Some(Err("No new participants"))
                     /\ UNCHANGED <<chat, chatMsgs>>
                ELSE /\ chatResult' = Some(Ok(unit))
                     /\ chat' = [chat EXCEPT ![c] = Some(
                            [state EXCEPT !.participants = @ \cup new_participants_ids,
                                          !.updated_at = now])]
                     /\ chatMsgs' = chatMsgs
                            (+) execute_add_chat(c, state.created_by, now,
                                                 new_participants_ids)
                            (+) execute_chat_updates(
                                    c, state.participants \cup new_participants_ids, now)
    /\ UNCHANGED <<userChats, chatsMade, dups, now, notChatVars>>

\* ChatAgentImpl::add_participants, a client call on chat c
AddParticipants(c, participants_ids) ==
    /\ chatCalls < MaxChatCalls
    /\ chatCalls' = chatCalls + 1
    /\ IF ~IsSome(chat[c])
       THEN /\ chatResult' = Some(Err("Chat not exists"))
            /\ UNCHANGED <<chat, chatMsgs>>
       ELSE LET state == Unwrap(chat[c])
                new_participants_ids ==
                    {id \in participants_ids : id \notin state.participants}
                old_participants_ids == state.participants
            IN  IF new_participants_ids = {}
                THEN /\ chatResult' = Some(Err("No new participants"))
                     /\ UNCHANGED <<chat, chatMsgs>>
                ELSE /\ chatResult' = Some(Ok(unit))
                     /\ chat' = [chat EXCEPT ![c] = Some(
                            [state EXCEPT !.participants = @ \cup new_participants_ids,
                                          !.updated_at = now])]
                     /\ chatMsgs' = chatMsgs
                            (+) execute_add_chat(c, state.created_by, now,
                                                 new_participants_ids)
                            (+) execute_chat_updates(c, old_participants_ids, now)
    /\ UNCHANGED <<userChats, chatsMade, dups, now, notChatVars>>

\* Chat::add_message: the message is stamped and appended
Chat_add_message(state, created_by) ==
    [state EXCEPT !.updated_at = now,
                  !.messages = Append(@, [message_id |-> chatCalls + 1,
                                          likes |-> <<>>,
                                          created_by |-> created_by,
                                          created_at |-> now,
                                          updated_at |-> now])]

\* as ChatAgentImpl::add_message, without the test of the length
ChatAgent_add_message_uncapped(c, user_id) ==
    /\ chatCalls' = chatCalls + 1
    /\ IF ~IsSome(chat[c])
       THEN /\ chatResult' = Some(Err("Chat not exists"))
            /\ UNCHANGED <<chat, chatMsgs>>
       ELSE LET next == Chat_add_message(Unwrap(chat[c]), user_id)
            IN  /\ chatResult' = Some(Ok(chatCalls + 1))
                /\ chat' = [chat EXCEPT ![c] = Some(next)]
                /\ chatMsgs' = chatMsgs (+)
                       execute_chat_updates(c, next.participants,
                                            next.updated_at)
    /\ UNCHANGED <<userChats, chatsMade, dups, now, notChatVars>>

\* ChatAgentImpl::add_message on chat c
ChatAgent_add_message(c, user_id) ==
    /\ chatCalls' = chatCalls + 1
    /\ IF ~IsSome(chat[c])
       THEN /\ chatResult' = Some(Err("Chat not exists"))
            /\ UNCHANGED <<chat, chatMsgs>>
       ELSE LET state == Unwrap(chat[c])
            IN  IF Len(state.messages) >= MAX_CHAT_LENGTH
                THEN /\ chatResult' = Some(Err("Max chat length"))
                     /\ UNCHANGED <<chat, chatMsgs>>
                ELSE LET next == Chat_add_message(state, user_id)
                     IN  /\ chatResult' = Some(Ok(chatCalls + 1))
                         /\ chat' = [chat EXCEPT ![c] = Some(next)]
                         /\ chatMsgs' = chatMsgs (+)
                                execute_chat_updates(c, next.participants,
                                                     next.updated_at)
    /\ UNCHANGED <<userChats, chatsMade, dups, now, notChatVars>>

\* a client calls add_message on chat c
AddMessage(c, user_id) ==
    /\ chatCalls < MaxChatCalls
    /\ ChatAgent_add_message(c, user_id)

NextChat ==
    \/ Tick
    \/ \E u \in Users, ids \in SUBSET ChatUsers : CreateChat(u, ids)
    \/ \E m \in BagToSet(chatMsgs) : DeliverChatTrigger(m)
    \/ \E m \in BagToSet(chatMsgs) : RedeliverChatTrigger(m)
    \/ \E c \in ChatIds, ids \in SUBSET ChatUsers : AddParticipants(c, ids)
    \/ \E c \in ChatIds, u \in Users : AddMessage(c, u)

SpecChat == Init /\ [][NextChat]_vars

NoChatTriggerInFlight == chatMsgs = EmptyBag

\* the references agent p holds to chat c
RefsTo(p, c) ==
    IF IsSome(userChats[p])
    THEN {i \in 1..Len(Unwrap(userChats[p]).chats) :
             Unwrap(userChats[p]).chats[i].chat_id = c}
    ELSE {}

(***************************************************************************)
(* C4: whenever no chat trigger is in flight, every participant p of every *)
(* initialized chat c holds exactly one reference to c, and that           *)
(* reference's updated_at equals c's updated_at.                           *)
(***************************************************************************)
C4_UserChatsConverge ==
    NoChatTriggerInFlight =>
        \A c \in ChatIds :
            IsSome(chat[c]) =>
                \A p \in Unwrap(chat[c]).participants :
                    /\ Cardinality(RefsTo(p, c)) = 1
                    /\ \A i \in RefsTo(p, c) :
                          Unwrap(userChats[p]).chats[i].updated_at
                              = Unwrap(chat[c]).updated_at

(***************************************************************************)
(* UserPosts -> Post -> TimelinesUpdater -> UserTimeline.                  *)
(***************************************************************************)
\* user_posts: PostRef::new
UserPosts_PostRef_new(post_id) == [post_id |-> post_id, created_at |-> now]

UserPosts_new == [posts |-> <<>>, updated_at |-> now]

\* UserPostsAgentImpl::get_state: get_or_insert(UserPosts::new(id))
UserPosts_get_state(u) ==
    IF IsSome(userPosts[u]) THEN Unwrap(userPosts[u]) ELSE UserPosts_new

\* Post::new; comments is a map comment id -> comment
Post_new ==
    [content |-> "", created_by |-> "", likes |-> <<>>, comments |-> <<>>,
     created_at |-> now, updated_at |-> now]

\* Comment::new; likes is a map user id -> LikeType
Comment_new(user_id, parent_comment_id) ==
    [parent_comment_id |-> parent_comment_id, created_by |-> user_id,
     likes |-> <<>>, created_at |-> now, updated_at |-> now]

\* PostUpdate::from
PostUpdate_from(post_id, state) ==
    [post_id |-> post_id, created_at |-> state.created_at,
     updated_at |-> state.updated_at]

InitPostTrigger(post_id, user_id, content) ==
    [to |-> post_id, op |-> "init_post", user_id |-> user_id,
     content |-> content]

PostUpdatedTrigger(user_id, update, process_immediately) ==
    [to |-> user_id, op |-> "post_updated", update |-> update,
     process_immediately |-> process_immediately]

PostsUpdatedTrigger(user_id, user_updates) ==
    [to |-> user_id, op |-> "posts_updated", posts |-> user_updates]

\* UserPostsAgentImpl::create_post, a client call on agent u
CreatePost(u) ==
    LET state == UserPosts_get_state(u)
        post_id == PostIdOf[postsMade + 1]
        post_ref == UserPosts_PostRef_new(post_id)
    IN  /\ postsMade < MaxPosts
        /\ postsMade' = postsMade + 1
        /\ postMsgs' = postMsgs (+) SetToBag(
               {InitPostTrigger(post_id, u, "content")})
        /\ userPosts' = [userPosts EXCEPT ![u] = Some(
               [posts |-> Append(state.posts, post_ref),
                updated_at |-> post_ref.created_at])]
        /\ UNCHANGED <<post, updater, timeline, commentsMade, postResult,
                       carried, dups, now, notPostVars>>

\* as PostAgentImpl::init_post, without the test of the state
PostAgent_init_post_again(state, m) ==
    LET new == [Post_new EXCEPT !.created_by = m.user_id,
                                !.content = m.content,
                                !.created_at = now,
                                !.updated_at = now]
    IN  [state |-> Some(new),
         sent |-> SetToBag({PostUpdatedTrigger(
                      m.user_id, PostUpdate_from(m.to, new), TRUE)}),
         result |-> Ok(unit)]

\* PostAgentImpl::init_post on the agent's state: the new state, the
\* triggers sent and the Result
PostAgent_init_post(state, m) ==
    IF IsSome(state)
    THEN [state |-> state, sent |-> EmptyBag,
          result |-> Err("Post already exists")]
    ELSE LET new == [Post_new EXCEPT !.created_by = m.user_id,
                                     !.content = m.content,
                                     !.created_at = now,
                                     !.updated_at = now]
         IN  [state |-> Some(new),
              sent |-> SetToBag({PostUpdatedTrigger(
                           m.user_id, PostUpdate_from(m.to, new), TRUE)}),
              result |-> Ok(unit)]

\* PostAgentImpl::init_post run for trigger m
Post_init_post(m, inflight) ==
    LET r == PostAgent_init_post(post[m.to], m)
    IN  /\ post' = [post EXCEPT ![m.to] = r.state]
        /\ postMsgs' = inflight (+) r.sent
        /\ UNCHANGED <<updater, timeline, carried>>

\* a client calls init_post(user_id, content) on post p
ClientInitPost(p, user_id, content) ==
    /\ Post_init_post(InitPostTrigger(p, user_id, content), postMsgs)
    /\ postResult' = Some(PostAgent_init_post(
           post[p], InitPostTrigger(p, user_id, content)).result)
    /\ UNCHANGED <<userPosts, postsMade, commentsMade, dups, now, notPostVars>>

\* as Post::add_comment, without the test of the parent
Post_add_comment_any_parent(state, comment_id, user_id, parent_comment_id) ==
    [state |-> [state EXCEPT
                   !.comments =
                       [k \in DOMAIN state.comments \cup {comment_id} |->
                           IF k = comment_id
                           THEN Comment_new(user_id, parent_comment_id)
                           ELSE state.comments[k]],
                   !.updated_at = now],
     result |-> Ok(comment_id)]

\* Post::add_comment: the new state and the Result; the comment is stored
\* under the fresh id comment_id
Post_add_comment(state, comment_id, user_id, parent_comment_id) ==
    IF IsSome(parent_comment_id)
           /\ Unwrap(parent_comment_id) \notin DOMAIN state.comments
    THEN [state |-> state, result |-> Err("Parent comment not found")]
    ELSE [state |-> [state EXCEPT
                        !.comments =
                            [k \in DOMAIN state.comments \cup {comment_id} |->
                                IF k = comment_id
                                THEN Comment_new(user_id, parent_comment_id)
                                ELSE state.comments[k]],
                        !.updated_at = now],
          result |-> Ok(comment_id)]

\* Post::remove_comment, collect_comments_to_remove: the comment and, through
\* the parent pointers, the descendants of its children
RECURSIVE collect_comments_to_remove(_, _)
collect_comments_to_remove(comments, comment_id) ==
    {comment_id} \cup UNION
        {collect_comments_to_remove(comments, k) :
            k \in {c \in DOMAIN comments :
                      comments[c].parent_comment_id = Some(comment_id)}}

\* as Post::remove_comment, removing the comment and none of its descendants
Post_remove_comment_alone(state, comment_id) ==
    IF comment_id \notin DOMAIN state.comments
    THEN [state |-> state, result |-> Err("Comment not found")]
    ELSE [state |-> [state EXCEPT
                        !.comments = [k \in DOMAIN state.comments \ {comment_id}
                                         |-> state.comments[k]],
                        !.updated_at = now],
          result |-> Ok(unit)]

\* as Post::remove_comment, removing the comment and its children only
Post_remove_comment_children_only(state, comment_id) ==
    IF comment_id \notin DOMAIN state.comments
    THEN [state |-> state, result |-> Err("Comment not found")]
    ELSE LET to_remove ==
                 {comment_id} \cup
                     {c \in DOMAIN state.comments :
                         state.comments[c].parent_comment_id = Some(comment_id)}
         IN  [state |-> [state EXCEPT
                            !.comments = [k \in DOMAIN state.comments \ to_remove
                                             |-> state.comments[k]],
                            !.updated_at = now],
              result |-> Ok(unit)]

\* Post::remove_comment: the new state and the Result
Post_remove_comment(state, comment_id) ==
    IF comment_id \notin DOMAIN state.comments
    THEN [state |-> state, result |-> Err("Comment not found")]
    ELSE LET to_remove == collect_comments_to_remove(state.comments, comment_id)
         IN  [state |-> [state EXCEPT
                            !.comments = [k \in DOMAIN state.comments \ to_remove
                                             |-> state.comments[k]],
                            !.updated_at = now],
              result |-> Ok(unit)]

\* PostAgentImpl::add_comment, a client call on agent p
AddComment(p, user_id, parent_comment_id) ==
    /\ IF ~IsSome(post[p])
       THEN /\ postResult' = Some(Err("Post not exists"))
            /\ UNCHANGED <<post, postMsgs, commentsMade>>
       ELSE IF Cardinality(DOMAIN Unwrap(post[p]).comments) >= COMMENTS_MAX_COUNT
       THEN /\ postResult' = Some(Err("Max comment length"))
            /\ UNCHANGED <<post, postMsgs, commentsMade>>
       ELSE LET added == Post_add_comment(Unwrap(post[p]), commentsMade + 1,
                                          user_id, parent_comment_id)
            IN  /\ postResult' = Some(added.result)
                /\ IF is_ok(added.result)
                   THEN /\ post' = [post EXCEPT ![p] = Some(added.state)]
                        /\ postMsgs' = postMsgs (+) SetToBag(
                               {PostUpdatedTrigger(
                                    user_id, PostUpdate_from(p, added.state),
                                    FALSE)})
                        /\ commentsMade' = commentsMade + 1
                   ELSE UNCHANGED <<post, postMsgs, commentsMade>>
    /\ UNCHANGED <<userPosts, updater, timeline, postsMade, carried,
                   dups, now, notPostVars>>

\* PostAgentImpl::remove_comment, a client call on agent p
RemoveComment(p, comment_id) ==
    /\ IF ~IsSome(post[p])
       THEN /\ postResult' = Some(Err("Post not exists"))
            /\ UNCHANGED <<post, postMsgs>>
       ELSE LET removed == Post_remove_comment(Unwrap(post[p]), comment_id)
            IN  /\ postResult' = Some(removed.result)
                /\ IF is_ok(removed.result)
                   THEN /\ post' = [post EXCEPT ![p] = Some(removed.state)]
                        /\ postMsgs' = postMsgs (+) SetToBag(
                               {PostUpdatedTrigger(
                                    removed.state.created_by,
                                    PostUpdate_from(p, removed.state), FALSE)})
                   ELSE UNCHANGED <<post, postMsgs>>
    /\ UNCHANGED <<userPosts, updater, timeline, postsMade, commentsMade,
                   carried, dups, now, notPostVars>>

(***************************************************************************)
(* TimelinesUpdater                                                        *)
(***************************************************************************)
\* as add_update, without the retain that drops the entry of the same post
add_update_no_retain(state, update) ==
    [updates |-> Append(state.updates, update), updated_at |-> now]

\* TimelinesUpdaterAgentImpl::add_update
add_update(state, update) ==
    [updates |-> Append(SelectSeq(state.updates,
                                  LAMBDA x : x.post_id # update.post_id),
                        update),
     updated_at |-> now]

\* post/mod.rs: PostRef::new(post_id, user_id, created_at, tag, updated_at),
\* one element of the batch sent to a timeline
PostRef_of_update(update, user_id, connection_type) ==
    [post_id |-> update.post_id, created_by |-> user_id,
     created_at |-> update.created_at,
     created_by_connection_type |-> connection_type,
     updated_at |-> update.updated_at]

\* as notify_user_ids, with Follower tested before Friend
notify_user_ids_follower_first(state) ==
    LET cu == state.connected_users
    IN  [p \in {q \in DOMAIN cu : "Friend" \in cu[q] \/ "Follower" \in cu[q]}
            |-> IF "Follower" \in cu[p] THEN "Follower" ELSE "Friend"]

\* execute_posts_updates: the connected users to notify and the tag of each
notify_user_ids(state) ==
    LET cu == state.connected_users
    IN  [p \in {q \in DOMAIN cu : "Friend" \in cu[q] \/ "Follower" \in cu[q]}
            |-> IF "Friend" \in cu[p] THEN "Friend" ELSE "Follower"]

\* as execute_posts_update, without the batch for the creator's own timeline
execute_posts_update_peers_only(user_id, updates, notify) ==
    SetToBag({PostsUpdatedTrigger(p,
                 [i \in 1..Len(updates) |->
                     PostRef_of_update(updates[i], user_id,
                                       Some(notify[p]))]) :
              p \in DOMAIN notify})

\* execute_posts_update: the triggers sent
execute_posts_update(user_id, updates, notify) ==
    SetToBag({PostsUpdatedTrigger(user_id,
                 [i \in 1..Len(updates) |->
                     PostRef_of_update(updates[i], user_id, None)])})
    (+) SetToBag({PostsUpdatedTrigger(p,
                     [i \in 1..Len(updates) |->
                         PostRef_of_update(updates[i], user_id,
                                           Some(notify[p]))]) :
                  p \in DOMAIN notify})

\* execute_posts_updates: get_user, then the fan-out; nothing when the User
\* agent has no state
execute_posts_updates(user_id, updates) ==
    IF IsSome(user[user_id])
    THEN execute_posts_update(user_id, updates,
                              notify_user_ids(Unwrap(user[user_id])))
    ELSE EmptyBag

\* as TimelinesUpdaterAgentImpl::execute_posts_updates, with the buffer kept
\* when the fan-out found no User
TimelinesUpdater_execute_posts_updates_keep(user_id, state) ==
    IF state.updates # <<>> /\ IsSome(user[user_id])
    THEN [state |-> [updates |-> <<>>, updated_at |-> now],
          sent |-> execute_posts_updates(user_id, state.updates)]
    ELSE [state |-> state, sent |-> EmptyBag]

\* TimelinesUpdaterAgentImpl::execute_posts_updates: the new state and the
\* triggers sent
TimelinesUpdater_execute_posts_updates(user_id, state) ==
    IF state.updates # <<>>
    THEN [state |-> [updates |-> <<>>, updated_at |-> now],
          sent |-> execute_posts_updates(user_id, state.updates)]
    ELSE [state |-> state, sent |-> EmptyBag]

\* as TimelinesUpdaterAgentImpl::post_updated, draining whatever the flag
TimelinesUpdater_post_updated_always_drains(m, inflight) ==
    LET drained == TimelinesUpdater_execute_posts_updates(
                       m.to, add_update(updater[m.to], m.update))
    IN  /\ updater' = [updater EXCEPT ![m.to] = drained.state]
        /\ postMsgs' = inflight (+) drained.sent
        /\ UNCHANGED <<post, timeline, carried>>

\* TimelinesUpdaterAgentImpl::post_updated run for trigger m
TimelinesUpdater_post_updated(m, inflight) ==
    LET added == add_update(updater[m.to], m.update)
        drained == IF m.process_immediately
                   THEN TimelinesUpdater_execute_posts_updates(m.to, added)
                   ELSE [state |-> added, sent |-> EmptyBag]
    IN  /\ updater' = [updater EXCEPT ![m.to] = drained.state]
        /\ postMsgs' = inflight (+) drained.sent
        /\ UNCHANGED <<post, timeline, carried>>

\* TimelinesUpdaterAgentImpl::process_posts_updates, a call on agent u
ProcessPostsUpdates(u) ==
    LET drained == TimelinesUpdater_execute_posts_updates(u, updater[u])
    IN  /\ updater' = [updater EXCEPT ![u] = drained.state]
        /\ postMsgs' = postMsgs (+) drained.sent
        /\ UNCHANGED <<post, userPosts, timeline, postsMade, commentsMade,
                       postResult, carried, dups, now, notPostVars>>

(***************************************************************************)
(* UserTimeline                                                            *)
(***************************************************************************)
\* user_timeline: PostRef::new
PostRef_new(post_id, created_by, created_by_connection_type) ==
    [post_id |-> post_id, created_by |-> created_by,
     created_by_connection_type |-> created_by_connection_type,
     created_at |-> now]

UserTimeline_new == [posts |-> <<>>, updated_at |-> now]

\* UserTimelineAgentImpl::get_state: get_or_insert(UserTimeline::new(id))
UserTimeline_get_state(u) ==
    IF IsSome(timeline[u]) THEN Unwrap(timeline[u]) ELSE UserTimeline_new

contains_post(state, post_id) ==
    \E i \in 1..Len(state.posts) : state.posts[i].post_id = post_id

\* Vec::sort_by(|a, b| a.created_at.cmp(&b.created_at).reverse()): a stable
\* sort, the entries with key hi, hi - 1, ..., lo in the order they had (no
\* key is later than the clock's reading); the keys are halved at each level
RECURSIVE sort_by_created_at_reverse(_, _, _)
sort_by_created_at_reverse(posts, lo, hi) ==
    IF hi < lo
    THEN <<>>
    ELSE IF lo = hi
    THEN SelectSeq(posts, LAMBDA x : x.created_at = lo)
    ELSE LET mid == (lo + hi) \div 2
         IN  sort_by_created_at_reverse(posts, mid + 1, hi)
                 \o sort_by_created_at_reverse(posts, lo, mid)

\* UserTimeline::add_post
UserTimeline_add_post(state, post_id, created_by, created_by_connection_type) ==
    [posts |-> sort_by_created_at_reverse(
                   Append(state.posts,
                          PostRef_new(post_id, created_by,
                                      created_by_connection_type)),
                   0, now),
     updated_at |-> now]

\* as UserTimelineAgentImpl::add_post, without the contains_post test
UserTimelineAgent_add_post_unchecked(state, post_id, created_by, by_connection_type) ==
    UserTimeline_add_post(state, post_id, created_by, by_connection_type)

\* UserTimelineAgentImpl::add_post on the state
UserTimelineAgent_add_post(state, post_id, created_by, by_connection_type) ==
    IF ~contains_post(state, post_id)
    THEN UserTimeline_add_post(state, post_id, created_by, by_connection_type)
    ELSE state

\* A posts_updated batch run on the state of a UserTimeline agent: the agent
\* of user_timeline/mod.rs updates its state through add_post only, which is
\* applied to each post reference of the batch, in order.
RECURSIVE UserTimelineAgent_posts_updated(_, _)
UserTimelineAgent_posts_updated(state, posts) ==
    IF posts = <<>>
    THEN state
    ELSE UserTimelineAgent_posts_updated(
             UserTimelineAgent_add_post(state, Head(posts).post_id,
                                        Head(posts).created_by,
                                        Head(posts).created_by_connection_type),
             Tail(posts))

\* history: per post, the updated_at carried by the latest update delivered
\* and by the update its entry was built from; before and after are the
\* states of the timeline around the handler
carried_after(old, before, after, posts) ==
    LET ids == {posts[i].post_id : i \in 1..Len(posts)}
        incoming(p) == (CHOOSE x \in {posts[i] : i \in 1..Len(posts)} :
                            x.post_id = p).updated_at
    IN  [p \in DOMAIN old \cup ids |->
            IF p \in ids
            THEN [latest |-> incoming(p),
                  held |-> IF contains_post(before, p)
                                /\ \E i \in 1..Len(after.posts) :
                                       /\ after.posts[i].post_id = p
                                       /\ after.posts[i] \in
                                              {before.posts[j] :
                                                  j \in 1..Len(before.posts)}
                           THEN old[p].held
                           ELSE incoming(p)]
            ELSE old[p]]

\* the posts_updated trigger m run by UserTimeline agent m.to
UserTimeline_posts_updated(m, inflight) ==
    /\ timeline' = [timeline EXCEPT ![m.to] = Some(
           UserTimelineAgent_posts_updated(UserTimeline_get_state(m.to),
                                           m.posts))]
    /\ carried' = [carried EXCEPT ![m.to] =
           carried_after(@, UserTimeline_get_state(m.to),
                         Unwrap(timeline'[m.to]), m.posts)]
    /\ postMsgs' = inflight
    /\ UNCHANGED <<post, updater>>

PostTrigger_handle(m, inflight) ==
    CASE m.op = "init_post" -> Post_init_post(m, inflight)
      [] m.op = "post_updated" -> TimelinesUpdater_post_updated(m, inflight)
      [] m.op = "posts_updated" -> UserTimeline_posts_updated(m, inflight)

\* the runtime delivers trigger m and retires it
DeliverPostTrigger(m) ==
    /\ BagIn(m, postMsgs)
    /\ PostTrigger_handle(m, postMsgs (-) SetToBag({m}))
    /\ UNCHANGED <<userPosts, postsMade, commentsMade, postResult, dups, now,
                   notPostVars>>

\* the runtime delivers trigger m and will deliver it again
RedeliverPostTrigger(m) ==
    /\ BagIn(m, postMsgs)
    /\ dups < MaxDup
    /\ dups' = dups + 1
    /\ PostTrigger_handle(m, postMsgs)
    /\ UNCHANGED <<userPosts, postsMade, commentsMade, postResult, now,
                   notPostVars>>

\* the client calls made so far are fewer than MaxPostCalls
PostCallsLeft == userCalls + postsMade + commentsMade < MaxPostCalls

\* the steps of the post pipeline at one reading of the clock
NextPostUntimed ==
    \/ \E a \in Users, b \in Users, t \in UserConnectionType :
          /\ PostCallsLeft
          /\ ClientConnectUser(a, b, t)
          /\ UNCHANGED <<callLog, notUserVars>>
    \/ \E m \in UserTriggers : DeliverUserTrigger(m)
    \/ \E u \in Users : PostCallsLeft /\ CreatePost(u)
    \/ \E p \in PostIds, u \in Users :
          PostCallsLeft /\ IsSome(post[p]) /\ AddComment(p, u, None)
    \/ \E u \in Users : ProcessPostsUpdates(u)
    \/ \E m \in BagToSet(postMsgs) : DeliverPostTrigger(m)
    \/ \E m \in BagToSet(postMsgs) : RedeliverPostTrigger(m)

NextPost ==
    \/ Tick
    \/ NextPostUntimed

SpecPost == Init /\ [][NextPost]_vars

(***************************************************************************)
(* Views of the post pipeline used by the properties.                      *)
(***************************************************************************)
\* post p has an entry in the timeline of x
InTimeline(x, p) ==
    IsSome(timeline[x]) /\ contains_post(Unwrap(timeline[x]), p)

\* a posts_updated batch holding post p is in flight to the timeline of x
BatchInFlight(x, p) ==
    \E m \in BagToSet(postMsgs) :
        /\ m.op = "posts_updated"
        /\ m.to = x
        /\ \E i \in 1..Len(m.posts) : m.posts[i].post_id = p

\* post p, created through UserPosts(u).create_post, has not reached the
\* drain of TimelinesUpdater(u) yet
CreatedNotDrained(u, p) ==
    \/ /\ ~IsSome(post[p])
       /\ \E m \in BagToSet(postMsgs) :
              m.op = "init_post" /\ m.to = p /\ m.user_id = u
    \/ \E m \in BagToSet(postMsgs) :
           /\ m.op = "post_updated"
           /\ m.to = u
           /\ m.update.post_id = p
           /\ m.process_immediately

\* the peers with Friend or Follower in the connections of u
FriendsAndFollowers(u) ==
    {q \in Users : "Friend" \in ConnectionTypes(u, q)
                   \/ "Follower" \in ConnectionTypes(u, q)}

\* fair delivery: a trigger in flight is delivered sooner or later
DeliverSomePostTrigger == \E m \in BagToSet(postMsgs) : DeliverPostTrigger(m)

FairPostDelivery == WF_vars(DeliverSomePostTrigger)

\* no handler of the pipeline waits on the clock: the behaviours at one
\* reading of it, with fair delivery
SpecPostLive == Init /\ [][NextPostUntimed]_vars /\ FairPostDelivery

(***************************************************************************)
(* C5: post fan-out liveness.  A post created through create_post whose    *)
(* update reaches the drain while the creator's User is initialized        *)
(* eventually appears in the creator's own timeline; the drain sends a     *)
(* batch holding it to every peer whose entry contains Friend or Follower  *)
(* at that moment; and a batch in flight eventually puts its posts in the  *)
(* timeline it is addressed to.                                            *)
(***************************************************************************)
C5_PostFanOutLiveness ==
    /\ \A u \in Users, p \in PostIds :
           (CreatedNotDrained(u, p) /\ IsSome(user[u])) ~> InTimeline(u, p)
    /\ \A x \in Users, p \in PostIds :
           BatchInFlight(x, p) ~> InTimeline(x, p)
    /\ [][\A m \in BagToSet(postMsgs) :
              (/\ m.op = "post_updated"
               /\ m.process_immediately
               /\ IsSome(user[m.to])
               /\ DeliverPostTrigger(m) \/ RedeliverPostTrigger(m))
              => \A q \in FriendsAndFollowers(m.to) \cup {m.to} :
                     BatchInFlight(q, m.update.post_id)']_vars

\* a created post has reached the timeline of a Follower of its creator
C5_Witness ==
    \E u \in Users, q \in Users, p \in PostIds :
        /\ u # q
        /\ IsSome(post[p]) /\ Unwrap(post[p]).created_by = u
        /\ "Follower" \in ConnectionTypes(u, q)
        /\ InTimeline(u, p)
        /\ InTimeline(q, p)

(***************************************************************************)
(* C10: fan-out targeting.  A drain that finds the creator's User sends    *)
(* the creator's own timeline exactly one batch with no connection-type    *)
(* tag, every peer whose type set contains Friend exactly one batch tagged *)
(* Friend, every other peer whose type set contains Follower exactly one   *)
(* batch tagged Follower, and nothing to anyone else.                      *)
(***************************************************************************)
C10_FanOutTargeting ==
    [][LET Tagged(t, tag) ==
               \A i \in 1..Len(t.posts) :
                   t.posts[i].created_by_connection_type = tag
           TagFor(u, x) ==
               IF x = u THEN None
               ELSE IF "Friend" \in ConnectionTypes(u, x) THEN Some("Friend")
               ELSE Some("Follower")
           Targets(u) ==
               {u} \cup {x \in Users : "Friend" \in ConnectionTypes(u, x)}
                   \cup {x \in Users : "Follower" \in ConnectionTypes(u, x)}
           DrainSends(u, sent) ==
               /\ BagCardinality(sent) = Cardinality(Targets(u))
               /\ \A x \in Targets(u) :
                      \E t \in BagToSet(sent) :
                          /\ t.op = "posts_updated"
                          /\ t.to = x
                          /\ Tagged(t, TagFor(u, x))
       IN  /\ \A m \in BagToSet(postMsgs) :
                  (/\ m.op = "post_updated"
                   /\ m.process_immediately
                   /\ IsSome(user[m.to]))
                  => /\ DeliverPostTrigger(m) =>
                            DrainSends(m.to, postMsgs'
                                (-) (postMsgs (-) SetToBag({m})))
                     /\ RedeliverPostTrigger(m) =>
                            DrainSends(m.to, postMsgs' (-) postMsgs)
           /\ \A u \in Users :
                  (/\ updater[u].updates # <<>>
                   /\ IsSome(user[u])
                   /\ ProcessPostsUpdates(u))
                  => DrainSends(u, postMsgs' (-) postMsgs)]_vars

\* a drain has sent a batch tagged Friend to a peer that is both Friend and
\* Follower of the creator
C10_Witness ==
    \E u \in Users, q \in Users :
        /\ u # q
        /\ {"Friend", "Follower"} \subseteq ConnectionTypes(u, q)
        /\ \E m \in BagToSet(postMsgs) :
               /\ m.op = "posts_updated"
               /\ m.to = q
               /\ \A i \in 1..Len(m.posts) :
                      /\ m.posts[i].created_by = u
                      /\ m.posts[i].created_by_connection_type = Some("Friend")

(***************************************************************************)
(* C7: merge by id with replacement.  No two entries of a timeline share a *)
(* post id, and the entry of a post is the one of the latest update that   *)
(* arrived for it: the timeline carries that update's timestamp.           *)
(***************************************************************************)
C7_MergeByIdWithReplacement ==
    \A x \in Users :
        /\ IsSome(timeline[x]) =>
               \A i, j \in 1..Len(Unwrap(timeline[x]).posts) :
                   i # j => Unwrap(timeline[x]).posts[i].post_id
                                # Unwrap(timeline[x]).posts[j].post_id
        /\ \A p \in DOMAIN carried[x] :
               /\ InTimeline(x, p)
               /\ carried[x][p].held = carried[x][p].latest

(***************************************************************************)
(* C8: timeline ordering.  The entries of a timeline are in descending     *)
(* order of the updated_at carried by the update each entry came from.     *)
(***************************************************************************)
C8_SortedByUpdatedAt ==
    \A x \in Users :
        IsSome(timeline[x]) =>
            \A i, j \in 1..Len(Unwrap(timeline[x]).posts) :
                i < j =>
                    carried[x][Unwrap(timeline[x]).posts[i].post_id].held
                        >= carried[x][Unwrap(timeline[x]).posts[j].post_id].held

(***************************************************************************)
(* A timeline under load: at every reading of the clock the post created   *)
(* at that reading (its id is the reading) is fanned out by its creator    *)
(* "u2" to the timeline of the Friend "u1", and the batch is delivered     *)
(* before the next reading.                                                *)
(***************************************************************************)
TimelineFillDeliver ==
    LET update == [post_id |-> now, created_at |-> now, updated_at |-> now]
        m == PostsUpdatedTrigger("u1",
                 <<PostRef_of_update(update, "u2", Some("Friend"))>>)
    IN  /\ now \notin DOMAIN carried["u1"]
        /\ UserTimeline_posts_updated(m, postMsgs)
        /\ UNCHANGED <<userPosts, postsMade, commentsMade, postResult, dups,
                       now, notPostVars>>

TimelineFillTick ==
    /\ now \in DOMAIN carried["u1"]
    /\ now < MaxFill
    /\ now' = now + 1
    /\ UNCHANGED <<dups, userVars, chatVars, postVars, resultVars, commonVars>>

NextTimelineFill ==
    \/ TimelineFillDeliver
    \/ TimelineFillTick

SpecTimelineFill == Init /\ [][NextTimelineFill]_vars

(***************************************************************************)
(* C6: the timeline is bounded.  Every timeline holds at most 500 post     *)
(* references.                                                             *)
(***************************************************************************)
C6_TimelineBounded ==
    \A x \in Users :
        IsSome(timeline[x]) => Len(Unwrap(timeline[x]).posts) <= 500

(***************************************************************************)
(* C9: timeline retention.  After updates for n distinct post ids with     *)
(* distinct updated_at have been applied, the timeline holds exactly the   *)
(* min(n, 500) ids with the greatest updated_at.                           *)
(***************************************************************************)
C9_TimelineRetention ==
    \A x \in Users :
        LET applied == DOMAIN carried[x]
            n == Cardinality(applied)
            ids == IF IsSome(timeline[x])
                   THEN {Unwrap(timeline[x]).posts[i].post_id :
                            i \in 1..Len(Unwrap(timeline[x]).posts)}
                   ELSE {}
        IN  Cardinality({carried[x][p].latest : p \in applied}) = n =>
                /\ ids \subseteq applied
                /\ Cardinality(ids) = IF n < 500 THEN n ELSE 500
                /\ \A p \in ids, q \in applied \ ids :
                       carried[x][p].latest > carried[x][q].latest

(***************************************************************************)
(* C11: the coalescing buffer is per creator.  Every PostUpdate held by    *)
(* the TimelinesUpdater keyed by user u refers to a post created by u, and *)
(* every post reference a drain sends to a timeline names as created_by    *)
(* the created_by recorded in the Post it refers to.                       *)
(***************************************************************************)
C11_BufferPerCreator ==
    /\ \A u \in Users :
           \A i \in 1..Len(updater[u].updates) :
               /\ IsSome(post[updater[u].updates[i].post_id])
               /\ Unwrap(post[updater[u].updates[i].post_id]).created_by = u
    /\ \A m \in BagToSet(postMsgs) :
           m.op = "posts_updated" =>
               \A i \in 1..Len(m.posts) :
                   /\ IsSome(post[m.posts[i].post_id])
                   /\ m.posts[i].created_by
                          = Unwrap(post[m.posts[i].post_id]).created_by

(***************************************************************************)
(* C12: coalescing buffer deduplication.  The buffer of a TimelinesUpdater *)
(* holds at most one PostUpdate per post id, and after an update has been  *)
(* received and buffered the entry of its post id is that update.          *)
(***************************************************************************)
C12_BufferDeduplicated ==
    /\ [](\A u \in Users :
              \A i, j \in 1..Len(updater[u].updates) :
                  i # j => updater[u].updates[i].post_id
                               # updater[u].updates[j].post_id)
    /\ [][\A m \in BagToSet(postMsgs) :
              (/\ m.op = "post_updated"
               /\ ~m.process_immediately
               /\ DeliverPostTrigger(m) \/ RedeliverPostTrigger(m))
              => \A i \in 1..Len(updater'[m.to].updates) :
                     updater'[m.to].updates[i].post_id = m.update.post_id
                         => updater'[m.to].updates[i] = m.update]_vars

\* a buffer whose entry for a post has replaced an earlier, different one
C12_Witness ==
    \E u \in Users, p \in PostIds :
        /\ IsSome(post[p])
        /\ Cardinality(DOMAIN Unwrap(post[p]).comments) = 2
        /\ \A k \in DOMAIN Unwrap(post[p]).comments :
               Unwrap(post[p]).comments[k].created_by = u
        /\ updater[u].updates = <<PostUpdate_from(p, Unwrap(post[p]))>>
        /\ Unwrap(post[p]).updated_at > Unwrap(post[p]).created_at
        /\ \A m \in BagToSet(postMsgs) : m.op # "post_updated"
        /\ dups = 0

(***************************************************************************)
(* The post pipeline with one more client call, at one reading of the      *)
(* clock and with every trigger delivered once: the behaviours in which a  *)
(* TimelinesUpdater of an initialized User drains several updates.         *)
(***************************************************************************)
UpdaterCallsLeft == userCalls + postsMade + commentsMade < MaxUpdaterCalls

NextUpdater ==
    \/ \E a \in Users, b \in Users, t \in UserConnectionType :
          /\ UpdaterCallsLeft
          /\ ClientConnectUser(a, b, t)
          /\ UNCHANGED <<callLog, notUserVars>>
    \/ \E m \in UserTriggers : DeliverUserTrigger(m)
    \/ \E u \in Users : UpdaterCallsLeft /\ CreatePost(u)
    \/ \E p \in PostIds, u \in Users :
          UpdaterCallsLeft /\ IsSome(post[p]) /\ AddComment(p, u, None)
    \/ \E u \in Users : ProcessPostsUpdates(u)
    \/ \E m \in BagToSet(postMsgs) : DeliverPostTrigger(m)

SpecUpdater == Init /\ [][NextUpdater]_vars

(***************************************************************************)
(* C13: drain timing.  post_updated with immediate = false sends nothing   *)
(* to any timeline and keeps the update buffered; post_updated with        *)
(* immediate = true and process_posts_updates leave the buffer empty and,  *)
(* when the creator's User exists, every batch sent holds every update     *)
(* that was buffered, the ones buffered earlier included.                  *)
(***************************************************************************)
C13_DrainTiming ==
    [][LET NewBatches ==
               {t \in BagToSet(postMsgs') :
                   /\ t.op = "posts_updated"
                   /\ CopiesIn(t, postMsgs') > CopiesIn(t, postMsgs)}
           Holds(t, x) ==
               \E i \in 1..Len(t.posts) :
                   /\ t.posts[i].post_id = x.post_id
                   /\ t.posts[i].created_at = x.created_at
                   /\ t.posts[i].updated_at = x.updated_at
           Buffered(u) ==
               {updater[u].updates[i] : i \in 1..Len(updater[u].updates)}
           Drained(u, buffered) ==
               /\ updater'[u].updates = <<>>
               /\ (IsSome(user[u]) /\ buffered # {}) =>
                      /\ NewBatches # {}
                      /\ \A t \in NewBatches, x \in buffered : Holds(t, x)
       IN  /\ \A m \in BagToSet(postMsgs) :
                  (/\ m.op = "post_updated"
                   /\ DeliverPostTrigger(m) \/ RedeliverPostTrigger(m))
                  => IF m.process_immediately
                     THEN Drained(m.to,
                              {x \in Buffered(m.to) :
                                  x.post_id # m.update.post_id}
                                  \cup {m.update})
                     ELSE /\ NewBatches = {}
                          /\ \E i \in 1..Len(updater'[m.to].updates) :
                                 updater'[m.to].updates[i] = m.update
           /\ \A u \in Users :
                  ProcessPostsUpdates(u) => Drained(u, Buffered(u))]_vars

\* a drain of an initialized User has sent a batch of two updates, one of
\* them buffered by an add_comment
C13_Witness ==
    \E u \in Users, m \in BagToSet(postMsgs) :
        /\ IsSome(user[u])
        /\ updater[u].updates = <<>>
        /\ m.op = "posts_updated"
        /\ m.to = u
        /\ Len(m.posts) = 2
        /\ \A i \in 1..2 : m.posts[i].created_by = u
        /\ \E i \in 1..2 : m.posts[i].updated_at > m.posts[i].created_at
               \/ commentsMade > 0

(***************************************************************************)
(* C14: best-effort drain.  A drain that runs while the creator's User is  *)
(* uninitialized sends no trigger to any timeline, the creator's own       *)
(* included, and drops the buffered updates: the buffer is empty after it. *)
(***************************************************************************)
C14_BestEffortDrain ==
    [][LET NoBatchSent ==
               \A t \in BagToSet(postMsgs') :
                   t.op = "posts_updated" =>
                       CopiesIn(t, postMsgs') = CopiesIn(t, postMsgs)
       IN  /\ \A m \in BagToSet(postMsgs) :
                  (/\ m.op = "post_updated"
                   /\ m.process_immediately
                   /\ ~IsSome(user[m.to])
                   /\ DeliverPostTrigger(m) \/ RedeliverPostTrigger(m))
                  => NoBatchSent /\ updater'[m.to].updates = <<>>
           /\ \A u \in Users :
                  (~IsSome(user[u]) /\ ProcessPostsUpdates(u))
                  => NoBatchSent /\ updater'[u].updates = <<>>]_vars

\* the updates of two posts of a creator without User have been drained and
\* dropped: nothing is buffered, in flight or in the creator's timeline
C14_Witness ==
    \E u \in Users :
        /\ ~IsSome(user[u])
        /\ \A p \in PostIds :
               IsSome(post[p]) /\ Unwrap(post[p]).created_by = u
        /\ commentsMade > 0
        /\ updater[u].updates = <<>>
        /\ postMsgs = EmptyBag
        /\ ~IsSome(timeline[u])

(***************************************************************************)
(* Users, chats and posts together, every trigger delivered at least once: *)
(* the behaviours in which each kind of trigger is delivered twice.        *)
(***************************************************************************)
DupCallsLeft == userCalls + chatsMade + chatCalls + postsMade < MaxDupCalls

NextDup ==
    \/ Tick
    \/ \E a \in Users, b \in Users, t \in UserConnectionType :
          /\ DupCallsLeft
          /\ ClientConnectUser(a, b, t)
          /\ UNCHANGED <<callLog, notUserVars>>
    \/ \E a \in Users, b \in Users, t \in UserConnectionType :
          /\ DupCallsLeft
          /\ ClientDisconnectUser(a, b, t)
          /\ UNCHANGED <<callLog, notUserVars>>
    \/ \E m \in UserTriggers : DeliverUserTrigger(m)
    \/ \E m \in UserTriggers : RedeliverUserTrigger(m)
    \/ \E u \in Users, ids \in SUBSET ChatUsers :
          DupCallsLeft /\ CreateChat(u, ids)
    \/ \E c \in ChatIds, ids \in SUBSET ChatUsers :
          DupCallsLeft /\ AddParticipants(c, ids)
    \/ \E m \in BagToSet(chatMsgs) : DeliverChatTrigger(m)
    \/ \E m \in BagToSet(chatMsgs) : RedeliverChatTrigger(m)
    \/ \E u \in Users : DupCallsLeft /\ CreatePost(u)
    \/ \E m \in BagToSet(postMsgs) : DeliverPostTrigger(m)
    \/ \E m \in BagToSet(postMsgs) : RedeliverPostTrigger(m)

SpecDup == Init /\ [][NextDup]_vars

\* the triggers in flight whose handlers are User.connect_user,
\* User.disconnect_user, Chat.init_chat, UserChats.add_chat,
\* UserChats.chat_updated, Post.init_post and UserTimeline's update handler
EntityTriggers ==
    BagToSet(userMsgs) \cup BagToSet(chatMsgs)
        \cup {m \in BagToSet(postMsgs) : m.op \in {"init_post", "posts_updated"}}

\* the state of the agent that receives trigger m
ReceiverState(m) ==
    CASE m.op \in {"connect_user", "disconnect_user"} -> user[m.to]
      [] m.op = "init_chat" -> chat[m.to]
      [] m.op \in {"add_chat", "chat_updated"} -> userChats[m.to]
      [] m.op = "init_post" -> post[m.to]
      [] m.op = "posts_updated" -> timeline[m.to]

\* the state the receiver of trigger m has once its handler has run on the
\* present state
HandledState(m) ==
    CASE m.op = "connect_user" ->
            Some(User_connect_user(m.to, User_get_state(m.to), m.user_id,
                                   m.connection_type).state)
      [] m.op = "disconnect_user" ->
            Some(User_disconnect_user(m.to, User_get_state(m.to), m.user_id,
                                      m.connection_type).state)
      [] m.op = "init_chat" -> ChatAgent_init_chat(chat[m.to], m).state
      [] m.op = "add_chat" -> UserChats_add_chat(m)
      [] m.op = "chat_updated" -> UserChats_chat_updated(m)
      [] m.op = "init_post" -> PostAgent_init_post(post[m.to], m).state
      [] m.op = "posts_updated" ->
            Some(UserTimelineAgent_posts_updated(UserTimeline_get_state(m.to),
                                                 m.posts))

\* the step runs the handler of trigger m
Handles(m) ==
    CASE m.op \in {"connect_user", "disconnect_user"} ->
            DeliverUserTrigger(m) \/ RedeliverUserTrigger(m)
      [] m.op \in {"init_chat", "add_chat", "chat_updated"} ->
            DeliverChatTrigger(m) \/ RedeliverChatTrigger(m)
      [] m.op \in {"init_post", "posts_updated"} ->
            DeliverPostTrigger(m) \/ RedeliverPostTrigger(m)

(***************************************************************************)
(* C15: idempotent trigger handlers.  Once the handler of a trigger has    *)
(* run, running it again leaves the receiver's state, its own updated_at   *)
(* stamp set aside, as it is and so adds no entry; and this stays so, the  *)
(* clock advancing, for as long as the receiver's state is not changed.    *)
(***************************************************************************)
C15_IdempotentHandlers ==
    [][LET Unstamped(o) ==
               IF IsSome(o)
               THEN Some([f \in DOMAIN Unwrap(o) \ {"updated_at"} |->
                             Unwrap(o)[f]])
               ELSE None
           NoOpAgain(m) == Unstamped(HandledState(m)) = Unstamped(ReceiverState(m))
       IN  \A m \in EntityTriggers :
               /\ Handles(m) => NoOpAgain(m)'
               /\ (ReceiverState(m)' = ReceiverState(m) /\ NoOpAgain(m))
                      => NoOpAgain(m)']_vars

\* a trigger has been delivered twice and none is left in flight; two
\* connected Users hold the one post created in their timelines, once each
C15_Witness ==
    /\ dups = MaxDup
    /\ userMsgs = EmptyBag
    /\ postMsgs = EmptyBag
    /\ postsMade = 1
    /\ \A u \in Users :
           /\ IsSome(user[u])
           /\ DOMAIN Unwrap(user[u]).connected_users # {}
           /\ IsSome(timeline[u])
           /\ Len(Unwrap(timeline[u]).posts) = 1

(***************************************************************************)
(* C16: chat_updated commutes, the later timestamp winning.  When a        *)
(* UserChats that holds a reference to chat c runs chat_updated(c, t1) and *)
(* then chat_updated(c, t2), the reference ends with the later of t1 and   *)
(* t2 and the actor's updated_at with the latest of its own, t1 and t2,   *)
(* whichever of the two triggers ran first.                                *)
(***************************************************************************)
C16_ChatUpdatedCommutes ==
    [][\A m1 \in BagToSet(chatMsgs), m2 \in BagToSet(chatMsgs) :
           (/\ m1.op = "chat_updated"
            /\ m2.op = "chat_updated"
            /\ m1.to = m2.to
            /\ m1.chat_id = m2.chat_id
            /\ IsSome(userChats[m1.to])
            /\ contains_chat(Unwrap(userChats[m1.to]).chats, m1.chat_id)
            /\ DeliverChatTrigger(m1) \/ RedeliverChatTrigger(m1))
           => LET Later(a, b) == IF a < b THEN b ELSE a
                  second == Unwrap(UserChats_chat_updated(m2))
              IN  /\ (second.chats[find_chat(second.chats, m2.chat_id)].updated_at)'
                        = Later(m1.updated_at, m2.updated_at)
                  /\ (second.updated_at)'
                        = Later(Unwrap(userChats[m1.to]).updated_at,
                                Later(m1.updated_at, m2.updated_at))]_vars

(***************************************************************************)
(* One post and its comment tree: comments are added under any parent id,  *)
(* present or not, and removed by any id.  The triggers sent to the        *)
(* TimelinesUpdater stay in flight.                                        *)
(***************************************************************************)
CommentIds == 1..MaxComments

NextComments ==
    \/ Tick
    \/ \E u \in Users : postsMade = 0 /\ CreatePost(u)
    \/ \E m \in BagToSet(postMsgs) :
          m.op = "init_post" /\ DeliverPostTrigger(m)
    \/ \E p \in PostIds, u \in Users,
          parent \in {None} \cup {Some(k) : k \in CommentIds} :
          commentsMade < MaxComments /\ AddComment(p, u, parent)
    \/ \E p \in PostIds, k \in CommentIds : RemoveComment(p, k)

SpecComments == Init /\ [][NextComments]_vars

\* comment c is comment k or has k among its ancestors
RECURSIVE IsUnder(_, _, _)
IsUnder(comments, c, k) ==
    \/ c = k
    \/ /\ IsSome(comments[c].parent_comment_id)
       /\ Unwrap(comments[c].parent_comment_id) \in DOMAIN comments
       /\ IsUnder(comments, Unwrap(comments[c].parent_comment_id), k)

(***************************************************************************)
(* C17: removal of a subtree.  remove_comment(k) on a post that holds      *)
(* comment k removes k and every comment that has k among its ancestors,   *)
(* and nothing else: every other comment stays as it was.  On a post that  *)
(* does not hold k it returns "Comment not found", changes no comment and  *)
(* no timestamp and sends no trigger.                                      *)
(***************************************************************************)
C17_RemoveCommentSubtree ==
    [][\A p \in PostIds, k \in CommentIds :
           (IsSome(post[p]) /\ RemoveComment(p, k))
           => LET comments == Unwrap(post[p]).comments
                  after == Unwrap(post'[p]).comments
                  subtree == {c \in DOMAIN comments : IsUnder(comments, c, k)}
              IN  IF k \in DOMAIN comments
                  THEN /\ postResult' = Some(Ok(unit))
                       /\ DOMAIN after = DOMAIN comments \ subtree
                       /\ \A c \in DOMAIN after : after[c] = comments[c]
                       /\ Cardinality(DOMAIN comments)
                              - Cardinality(DOMAIN after)
                            = Cardinality(subtree \ {k}) + 1
                  ELSE /\ postResult' = Some(Err("Comment not found"))
                       /\ post' = post
                       /\ postMsgs' = postMsgs]_vars

\* one remove_comment has succeeded (one trigger of init_post, one of each
\* add_comment and one more are in flight) and has removed a comment with
\* all its descendants, leaving one comment of those made
C17_Witness ==
    \E p \in PostIds :
        /\ IsSome(post[p])
        /\ commentsMade = MaxComments
        /\ BagCardinality(postMsgs) = MaxComments + 2
        /\ postResult = Some(Ok(unit))
        /\ Cardinality(DOMAIN Unwrap(post[p]).comments) = 1

NextCapFill ==
    \/ postsMade = 0 /\ CreatePost("u1")
    \/ \E m \in BagToSet(postMsgs) :
          m.op = "init_post" /\ DeliverPostTrigger(m)
    \/ chatsMade = 0 /\ CreateChat("u1", {"u2"})
    \/ \E m \in BagToSet(chatMsgs) :
          m.op = "init_chat" /\ DeliverChatTrigger(m)
    \/ \E p \in PostIds, c \in ChatIds :
          /\ IsSome(post[p]) /\ IsSome(chat[c])
          /\ commentsMade < MaxCapCalls
          /\ commentsMade <= chatCalls
          /\ AddComment(p, "u1", None)
    \/ \E p \in PostIds, c \in ChatIds :
          /\ IsSome(post[p]) /\ IsSome(chat[c])
          /\ chatCalls < MaxCapCalls
          /\ chatCalls <= commentsMade
          /\ ChatAgent_add_message(c, "u1")

SpecCapFill == Init /\ [][NextCapFill]_vars

(***************************************************************************)
(* C19: capped inner collections.  A Post never holds more than 2000       *)
(* comments and a Chat never more than 2000 messages; add_comment on a     *)
(* post of 2000 comments and add_message on a chat of 2000 messages return *)
(* an error, add nothing and send no trigger.                              *)
(***************************************************************************)
C19_InnerCollectionsCapped ==
    /\ [](/\ \A p \in PostIds :
               IsSome(post[p]) =>
                   Cardinality(DOMAIN Unwrap(post[p]).comments) <= 2000
          /\ \A c \in ChatIds :
               IsSome(chat[c]) => Len(Unwrap(chat[c]).messages) <= 2000)
    /\ [][/\ \A p \in PostIds, u \in Users :
               (/\ IsSome(post[p])
                /\ Cardinality(DOMAIN Unwrap(post[p]).comments) = 2000
                /\ AddComment(p, u, None))
               => /\ IsSome(postResult') /\ ~is_ok(Unwrap(postResult'))
                  /\ post' = post
                  /\ postMsgs' = postMsgs
          /\ \A c \in ChatIds, u \in Users :
               (/\ IsSome(chat[c])
                /\ Len(Unwrap(chat[c]).messages) = 2000
                /\ ChatAgent_add_message(c, u))
               => /\ IsSome(chatResult') /\ ~is_ok(Unwrap(chatResult'))
                  /\ chat' = chat
                  /\ chatMsgs' = chatMsgs]_vars

\* the post holds 2000 comments and the chat 2000 messages, and one more
\* add_comment and one more add_message have returned an error
C19_Witness ==
    /\ \E p \in PostIds :
           /\ IsSome(post[p])
           /\ Cardinality(DOMAIN Unwrap(post[p]).comments) = 2000
    /\ \E c \in ChatIds :
           /\ IsSome(chat[c])
           /\ Len(Unwrap(chat[c]).messages) = 2000
    /\ postResult = Some(Err("Max comment length"))
    /\ chatResult = Some(Err("Max chat length"))
    /\ chatCalls > 2000

(***************************************************************************)
(* Chats with init_chat also called by clients, with any set of            *)
(* participants, at one reading of the clock.                              *)
(***************************************************************************)
NextChatInit ==
    \/ \E c \in ChatIds, ids \in SUBSET ChatUsers, u \in ChatUsers :
          ClientInitChat(c, ids, u)
    \/ \E u \in Users, ids \in SUBSET ChatUsers : CreateChat(u, ids)
    \/ \E m \in BagToSet(chatMsgs) : DeliverChatTrigger(m)
    \/ \E m \in BagToSet(chatMsgs) : RedeliverChatTrigger(m)
    \/ \E c \in ChatIds, ids \in SUBSET ChatUsers : AddParticipants(c, ids)

SpecChatInit == Init /\ [][NextChatInit]_vars

(***************************************************************************)
(* C20: chat participants.  An initialized Chat has at least two           *)
(* participants and its creator is one of them; a Chat stays initialized   *)
(* and no step removes a participant.                                      *)
(***************************************************************************)
C20_ChatParticipants ==
    /\ [](\A c \in ChatIds :
              IsSome(chat[c]) =>
                  /\ Cardinality(Unwrap(chat[c]).participants) >= 2
                  /\ Unwrap(chat[c]).created_by \in Unwrap(chat[c]).participants)
    /\ [][\A c \in ChatIds :
              IsSome(chat[c]) =>
                  /\ IsSome(chat'[c])
                  /\ Unwrap(chat[c]).participants
                         \subseteq Unwrap(chat'[c]).participants]_vars

\* a chat created through create_chat holds three participants after two
\* client calls on Chat agents
C20_Witness ==
    \E c \in ChatIds :
        /\ IsSome(chat[c])
        /\ Cardinality(Unwrap(chat[c]).participants) = 3
        /\ chatCalls = MaxChatCalls
        /\ chatsMade = 1

(***************************************************************************)
(* C21: init_chat on an uninitialized Chat succeeds exactly when the       *)
(* participants together with the creator are at least two; when they are  *)
(* fewer it returns "Chat must have at least 2 participants", the Chat     *)
(* stays uninitialized and no trigger is sent.                             *)
(***************************************************************************)
C21_InitChatNeedsTwo ==
    [][\A c \in ChatIds, ids \in SUBSET ChatUsers, u \in ChatUsers :
           (~IsSome(chat[c]) /\ ClientInitChat(c, ids, u))
           => IF Cardinality(ids \cup {u}) >= 2
              THEN /\ chatResult' = Some(Ok(unit))
                   /\ IsSome(chat'[c])
                   /\ Unwrap(chat'[c]).participants = ids \cup {u}
              ELSE /\ chatResult' =
                         Some(Err("Chat must have at least 2 participants"))
                   /\ chat'[c] = None
                   /\ chatMsgs' = chatMsgs]_vars

\* a first client call on the uninitialized chat was refused, and an
\* init_chat of the creator and one other has then initialized it
C21_Witness ==
    \E c \in ChatIds :
        /\ IsSome(chat[c])
        /\ Cardinality(Unwrap(chat[c]).participants) = 2
        /\ chatResult = Some(Ok(unit))
        /\ chatCalls = 2
        /\ chatsMade = 0
        /\ BagCardinality(chatMsgs) = 1

(***************************************************************************)
(* One post and one chat on which clients call init_post and init_chat at  *)
(* any time, before and after they were initialized and were given a       *)
(* comment and a message.  Of the triggers only init_chat is delivered.    *)
(***************************************************************************)
ReinitCallsLeft == chatCalls + commentsMade + chatsMade < MaxReinitCalls

NextReinit ==
    \/ Tick
    \/ ReinitCallsLeft /\ CreateChat("u1", {"u3"})
    \/ \E m \in BagToSet(chatMsgs) :
          m.op = "init_chat" /\ DeliverChatTrigger(m)
    \/ ReinitCallsLeft /\ IsSome(post[PostIdOf[1]])
          /\ AddComment(PostIdOf[1], "u1", None)
    \/ \E c \in ChatIds :
          ReinitCallsLeft /\ IsSome(chat[c]) /\ AddMessage(c, "u1")
    \/ \E u \in Users, content \in {"content", "other"} :
          ClientInitPost(PostIdOf[1], u, content)
    \/ \E c \in ChatIds, ids \in SUBSET ChatUsers, u \in ChatUsers :
          ReinitCallsLeft /\ ClientInitChat(c, ids, u)

SpecReinit == Init /\ [][NextReinit]_vars

(***************************************************************************)
(* C22: init_post on an initialized Post returns "Post already exists" and *)
(* init_chat on an initialized Chat returns "Chat already exists",         *)
(* whatever the arguments; the entity keeps every field and no trigger is  *)
(* sent.                                                                   *)
(***************************************************************************)
C22_ReinitRejected ==
    [][/\ \A p \in PostIds, u \in Users, content \in {"content", "other"} :
            (IsSome(post[p]) /\ ClientInitPost(p, u, content))
            => /\ postResult' = Some(Err("Post already exists"))
               /\ post' = post
               /\ postMsgs' = postMsgs
       /\ \A c \in ChatIds, ids \in SUBSET ChatUsers, u \in ChatUsers :
            (IsSome(chat[c]) /\ ClientInitChat(c, ids, u))
            => /\ chatResult' = Some(Err("Chat already exists"))
               /\ chat' = chat
               /\ chatMsgs' = chatMsgs]_vars

\* init_post was refused on a post that holds a comment and init_chat on a
\* chat that holds a message, both at a later reading of the clock than the
\* entity's updated_at
C22_Witness ==
    /\ postResult = Some(Err("Post already exists"))
    /\ chatResult = Some(Err("Chat already exists"))
    /\ \E p \in PostIds :
           /\ IsSome(post[p])
           /\ DOMAIN Unwrap(post[p]).comments # {}
           /\ Unwrap(post[p]).updated_at < now
    /\ \E c \in ChatIds :
           /\ IsSome(chat[c])
           /\ Unwrap(chat[c]).messages # <<>>
           /\ Unwrap(chat[c]).updated_at < now

(***************************************************************************)
(* C23: a successful init_chat sends an add_chat trigger to the UserChats  *)
(* of every participant other than the creator and a chat_updated trigger  *)
(* to the UserChats of every participant, the creator included.            *)
(***************************************************************************)
C23_InitChatNotifies ==
    [][\A c \in ChatIds :
           (~IsSome(chat[c]) /\ IsSome(chat'[c]))
           => LET state == Unwrap(chat'[c])
                  Sent(t) == CopiesIn(t, chatMsgs') > CopiesIn(t, chatMsgs)
              IN  \A p \in state.participants :
                      /\ p # state.created_by =>
                             Sent(AddChatTrigger(p, c, state.created_by,
                                                 state.created_at))
                      /\ Sent(ChatUpdatedTrigger(p, c, state.updated_at))]_vars

(***************************************************************************)
(* C24: add_participants(ids) fails, changing no state and sending no      *)
(* trigger, if the Chat is uninitialized or every id is already a          *)
(* participant; otherwise the participants become the union, exactly the   *)
(* ids that were not participants receive an add_chat trigger and exactly  *)
(* the ids that were participants receive a chat_updated trigger.          *)
(***************************************************************************)
C24_AddParticipants ==
    [][\A c \in ChatIds, ids \in SUBSET ChatUsers :
           AddParticipants(c, ids)
           => LET Added == {t \in BagToSet(chatMsgs') :
                               CopiesIn(t, chatMsgs') > CopiesIn(t, chatMsgs)}
                  AddedOp(op) == {t \in Added : t.op = op}
              IN  IF ~IsSome(chat[c]) \/ ids \subseteq Unwrap(chat[c]).participants
                  THEN /\ ~is_ok(Unwrap(chatResult'))
                       /\ chat' = chat
                       /\ chatMsgs' = chatMsgs
                  ELSE LET old == Unwrap(chat[c]).participants
                       IN  /\ is_ok(Unwrap(chatResult'))
                           /\ Unwrap(chat'[c]).participants = old \cup ids
                           /\ \A t \in BagToSet(chatMsgs) :
                                  CopiesIn(t, chatMsgs') >= CopiesIn(t, chatMsgs)
                           /\ \A t \in Added :
                                  /\ CopiesIn(t, chatMsgs') = CopiesIn(t, chatMsgs) + 1
                                  /\ t.op \in {"add_chat", "chat_updated"}
                                  /\ t.chat_id = c
                           /\ {t.to : t \in AddedOp("add_chat")} = ids \ old
                           /\ Cardinality(AddedOp("add_chat")) = Cardinality(ids \ old)
                           /\ {t.to : t \in AddedOp("chat_updated")} = old
                           /\ Cardinality(AddedOp("chat_updated")) = Cardinality(old)]_vars

\* add_participants has failed on an uninitialized chat or on known ids, and
\* has added a participant to a chat of two
C24_Witness ==
    /\ chatCalls = MaxChatCalls
    /\ \E c \in ChatIds :
           /\ IsSome(chat[c])
           /\ Cardinality(Unwrap(chat[c]).participants) = 3
           /\ Unwrap(chat[c]).created_at < Unwrap(chat[c]).updated_at
           /\ \E t \in BagToSet(chatMsgs) : t.op = "add_chat" /\ t.to = "u3"
           /\ \E t \in BagToSet(chatMsgs) :
                  t.op = "chat_updated" /\ t.to \in Users
                  /\ t.updated_at = Unwrap(chat[c]).updated_at
    /\ ~is_ok(Unwrap(chatResult))

(***************************************************************************)
(* UserChats agents with add_chat also called by clients, with any         *)
(* creator and any time read so far, for a chat minted here or for one     *)
(* made by a user outside Users; add_chat triggers are delivered more than *)
(* once.                                                                   *)
(***************************************************************************)
ForeignChatId == "cx"

AddChatIds == ChatIds \cup {ForeignChatId}

\* the chat ids a client can name: uuids are minted by create_chat
MintedChatIds == {ChatIdOf[i] : i \in 1..chatsMade} \cup {ForeignChatId}

NextAddChat ==
    \/ Tick
    \/ \E u \in Users, ids \in SUBSET ChatUsers : CreateChat(u, ids)
    \/ \E m \in BagToSet(chatMsgs) : DeliverChatTrigger(m)
    \/ \E m \in BagToSet(chatMsgs) : m.op = "add_chat" /\ RedeliverChatTrigger(m)
    \/ \E u \in Users, c \in AddChatIds, by \in Users, t \in 0..MaxClock :
          c \in MintedChatIds /\ t <= now /\ ClientAddChat(u, c, by, t)

SpecAddChat == Init /\ [][NextAddChat]_vars

(***************************************************************************)
(* C25: UserChats.add_chat is idempotent on the chat id.  No agent holds   *)
(* two references to one chat; after add_chat(id, creator, t) with creator *)
(* other than the agent's own id the agent holds exactly one reference to  *)
(* id, and if it held one before, nothing changed; with creator equal to   *)
(* the agent's own id the call returns an error and the references are     *)
(* the ones held before.                                                   *)
(***************************************************************************)
C25_AddChatIdempotent ==
    /\ [](\A u \in ChatUsers, c \in AddChatIds : Cardinality(RefsTo(u, c)) <= 1)
    /\ [][/\ \A m \in BagToSet(chatMsgs) :
               (m.op = "add_chat" /\ (DeliverChatTrigger(m) \/ RedeliverChatTrigger(m)))
               => /\ Cardinality(RefsTo(m.to, m.chat_id))' = 1
                  /\ RefsTo(m.to, m.chat_id) # {} => userChats' = userChats
          /\ \A u \in Users, c \in AddChatIds, by \in Users, t \in 0..MaxClock :
               ClientAddChat(u, c, by, t)
               => IF by = u
                  THEN /\ ~is_ok(Unwrap(userChatsResult'))
                       /\ UserChats_get_state(u)'.chats = UserChats_get_state(u).chats
                  ELSE /\ is_ok(Unwrap(userChatsResult'))
                       /\ Cardinality(RefsTo(u, c))' = 1
                       /\ RefsTo(u, c) # {} => userChats' = userChats]_vars

\* an add_chat trigger was handled twice, a client's add_chat naming the agent
\* itself as creator was refused, and the agent holds references to two chats
C25_Witness ==
    /\ dups = MaxDup
    /\ \A m \in BagToSet(chatMsgs) : m.op # "add_chat"
    /\ IsSome(userChatsResult) /\ ~is_ok(Unwrap(userChatsResult))
    /\ \E u \in Users :
           /\ \A c \in AddChatIds : Cardinality(RefsTo(u, c)) = 1
           /\ \E i \in RefsTo(u, ForeignChatId) :
                  Unwrap(userChats[u]).chats[i].created_at < now

(***************************************************************************)
(* C26: connect_user(a, a, T) and disconnect_user(a, a, T) called on user  *)
(* a are no-ops for every T: what get_user returns is the same before and  *)
(* after, None included, and no trigger is sent.                           *)
(***************************************************************************)
C26_SelfConnectNoOp ==
    [][\A a \in Users, t \in UserConnectionType :
           (ClientConnectUser(a, a, t) \/ ClientDisconnectUser(a, a, t))
           => /\ user'[a] = user[a]
              /\ userMsgs' = userMsgs]_vars

(***************************************************************************)
(* C27: no self-connection.  In every reachable state no user's own id is  *)
(* a key of that user's connected_users, whatever client calls and         *)
(* triggers were processed, connect_user on a naming a included.           *)
(***************************************************************************)
C27_NoSelfConnection == \A a \in Users : ~HasEntry(a, a)

\* connect_user naming the agent itself was called on an agent that went on
\* to hold a connection to a peer
C27_Witness ==
    \E a \in Users, b \in Users :
        /\ a # b
        /\ HasEntry(a, b)
        /\ \E i \in 1..Len(callLog) :
               /\ callLog[i].on = a
               /\ callLog[i].op = "connect_user"
               /\ callLog[i].user_id = a

(***************************************************************************)
(* The profile of a User: set_name and set_email.  EmailAddress::from_str  *)
(* belongs to the email_address crate; its verdict is modelled on the      *)
(* addresses the clients send: the ones with a local part, an "@" and a    *)
(* domain are accepted.                                                    *)
(***************************************************************************)
ValidEmails == {"john.doe@example.com", "jane@example.com"}

InvalidEmails == {"invalid-email", ""}

Names == {"John Doe"}

\* EmailAddress::from_str(email_str).map_err(|e| format!("Invalid email: {e}"))
EmailAddress_from_str(email_str) ==
    IF email_str \in ValidEmails THEN Ok(unit) ELSE Err("Invalid email")

\* User::set_name
User_set_name(state, name) ==
    [state EXCEPT !.name = name, !.updated_at = now]

\* User::set_email: the new state and the Result
User_set_email(state, email) ==
    IF IsSome(email) /\ ~is_ok(EmailAddress_from_str(Unwrap(email)))
    THEN [state |-> state, result |-> EmailAddress_from_str(Unwrap(email))]
    ELSE [state |-> [state EXCEPT !.email = email, !.updated_at = now],
          result |-> Ok(unit)]

\* UserAgentImpl::set_name, a client call on agent a
ClientSetName(a, name) ==
    /\ user' = [user EXCEPT ![a] = Some(User_set_name(User_get_state(a), name))]
    /\ userResult' = Some(Ok(unit))
    /\ UNCHANGED <<userMsgs, userCalls, callLog, dups, now, chatVars, postVars,
                   userChatsResult, likeCalls, commonVars>>

\* UserAgentImpl::set_email, a client call on agent a
ClientSetEmail(a, email) ==
    LET r == User_set_email(User_get_state(a), email)
    IN  /\ user' = [user EXCEPT ![a] = Some(r.state)]
        /\ userResult' = Some(r.result)
        /\ UNCHANGED <<userMsgs, userCalls, callLog, dups, now, chatVars,
                       postVars, userChatsResult, likeCalls, commonVars>>

NextProfile ==
    \/ Tick
    \/ \E a \in Users, name \in {None} \cup {Some(n) : n \in Names} :
          ClientSetName(a, name)
    \/ \E a \in Users,
          email \in {None} \cup {Some(e) : e \in ValidEmails \cup InvalidEmails} :
          ClientSetEmail(a, email)
    \/ \E a \in Users, b \in Users, t \in UserConnectionType :
          ClientConnectUser(a, b, t) /\ UNCHANGED <<callLog, notUserVars>>
    \/ \E m \in UserTriggers : DeliverUserTrigger(m)

SpecProfile == Init /\ [][NextProfile]_vars

(***************************************************************************)
(* C28: set_email with an invalid address returns an error and leaves what *)
(* get_user returns unchanged: email, name, connections and updated_at     *)
(* keep their values, and an agent that was uninitialized stays            *)
(* uninitialized.                                                          *)
(***************************************************************************)
C28_InvalidEmailNoChange ==
    [][\A a \in Users, e \in InvalidEmails :
           ClientSetEmail(a, Some(e))
           => /\ ~is_ok(Unwrap(userResult'))
              /\ user'[a] = user[a]]_vars

(***************************************************************************)
(* Likes and the removal of messages.  A likes map is a function user id   *)
(* -> LikeType; HashMap::insert replaces the value of a key it holds.      *)
(***************************************************************************)
LikeType == {"Like", "Insightful", "Love", "Dislike"}

\* as likes.insert, keeping the value of a key the map holds
likes_insert_keep_first(likes, user_id, like_type) ==
    [u \in DOMAIN likes \cup {user_id} |->
        IF u \in DOMAIN likes THEN likes[u] ELSE like_type]

\* likes.insert(user_id, like_type)
likes_insert(likes, user_id, like_type) ==
    [u \in DOMAIN likes \cup {user_id} |->
        IF u = user_id THEN like_type ELSE likes[u]]

\* likes.remove(&user_id)
likes_remove(likes, user_id) ==
    [u \in DOMAIN likes \ {user_id} |-> likes[u]]

\* Post::set_like: the new state and the returned bool
Post_set_like(state, user_id, like_type) ==
    [state |-> [state EXCEPT !.likes = likes_insert(@, user_id, like_type),
                             !.updated_at = now],
     result |-> user_id \in DOMAIN state.likes]

\* Post::remove_like: the new state and the returned bool
Post_remove_like(state, user_id) ==
    IF user_id \in DOMAIN state.likes
    THEN [state |-> [state EXCEPT !.likes = likes_remove(@, user_id),
                                  !.updated_at = now],
          result |-> TRUE]
    ELSE [state |-> state, result |-> FALSE]

\* Post::set_comment_like: the new state and the Result
Post_set_comment_like(state, comment_id, user_id, like_type) ==
    IF comment_id \in DOMAIN state.comments
    THEN [state |-> [state EXCEPT
                        !.comments[comment_id].likes =
                            likes_insert(@, user_id, like_type),
                        !.comments[comment_id].updated_at = now],
          result |-> Ok(unit)]
    ELSE [state |-> state, result |-> Err("Comment not found")]

\* Post::remove_comment_like: the new state and the Result
Post_remove_comment_like(state, comment_id, user_id) ==
    IF comment_id \in DOMAIN state.comments
    THEN LET removed == user_id \in DOMAIN state.comments[comment_id].likes
         IN  [state |-> IF removed
                        THEN [state EXCEPT
                                 !.comments[comment_id].likes =
                                     likes_remove(@, user_id),
                                 !.comments[comment_id].updated_at = now]
                        ELSE state,
              result |-> Ok(unit)]
    ELSE [state |-> state, result |-> Err("Comment not found")]

\* what the like operations of a Post agent leave alone
notPostLikeVars ==
    <<userPosts, updater, timeline, postMsgs, postsMade, commentsMade, carried,
      dups, now, userVars, chatVars, userChatsResult, userResult, commonVars>>

\* as PostAgentImpl::set_like, run through with_state without the test of the
\* state
SetLike_lazy(p, user_id, like_type) ==
    /\ likeCalls' = likeCalls + 1
    /\ postResult' = Some(Ok(unit))
    /\ post' = [post EXCEPT ![p] = Some(
           Post_set_like(IF IsSome(post[p]) THEN Unwrap(post[p]) ELSE Post_new,
                         user_id, like_type).state)]
    /\ UNCHANGED notPostLikeVars

\* PostAgentImpl::set_like, a client call on agent p
SetLike(p, user_id, like_type) ==
    /\ likeCalls' = likeCalls + 1
    /\ IF ~IsSome(post[p])
       THEN /\ postResult' = Some(Err("Post not exists"))
            /\ UNCHANGED post
       ELSE /\ post' = [post EXCEPT ![p] = Some(
                   Post_set_like(Unwrap(post[p]), user_id, like_type).state)]
            /\ postResult' = Some(Ok(unit))
    /\ UNCHANGED notPostLikeVars

\* PostAgentImpl::remove_like, a client call on agent p
RemoveLike(p, user_id) ==
    /\ likeCalls' = likeCalls + 1
    /\ IF ~IsSome(post[p])
       THEN /\ postResult' = Some(Err("Post not exists"))
            /\ UNCHANGED post
       ELSE /\ post' = [post EXCEPT ![p] = Some(
                   Post_remove_like(Unwrap(post[p]), user_id).state)]
            /\ postResult' = Some(Ok(unit))
    /\ UNCHANGED notPostLikeVars

\* PostAgentImpl::set_comment_like, a client call on agent p
SetCommentLike(p, comment_id, user_id, like_type) ==
    /\ likeCalls' = likeCalls + 1
    /\ IF ~IsSome(post[p])
       THEN /\ postResult' = Some(Err("Post not exists"))
            /\ UNCHANGED post
       ELSE LET r == Post_set_comment_like(Unwrap(post[p]), comment_id,
                                           user_id, like_type)
            IN  /\ post' = [post EXCEPT ![p] = Some(r.state)]
                /\ postResult' = Some(r.result)
    /\ UNCHANGED notPostLikeVars

\* PostAgentImpl::remove_comment_like, a client call on agent p
RemoveCommentLike(p, comment_id, user_id) ==
    /\ likeCalls' = likeCalls + 1
    /\ IF ~IsSome(post[p])
       THEN /\ postResult' = Some(Err("Post not exists"))
            /\ UNCHANGED post
       ELSE LET r == Post_remove_comment_like(Unwrap(post[p]), comment_id,
                                              user_id)
            IN  /\ post' = [post EXCEPT ![p] = Some(r.state)]
                /\ postResult' = Some(r.result)
    /\ UNCHANGED notPostLikeVars

\* the first message with id message_id: iter_mut().find(..)
find_message(messages, message_id) ==
    CHOOSE i \in 1..Len(messages) :
        /\ messages[i].message_id = message_id
        /\ \A j \in 1..(i - 1) : messages[j].message_id # message_id

\* messages.iter().any(|m| m.message_id == message_id)
any_message(messages, message_id) ==
    \E i \in 1..Len(messages) : messages[i].message_id = message_id

\* Chat::remove_message: the new state and the returned bool
Chat_remove_message(state, message_id) ==
    IF any_message(state.messages, message_id)
    THEN [state |-> [state EXCEPT
                        !.messages = SelectSeq(@, LAMBDA m :
                                                   m.message_id # message_id),
                        !.updated_at = now],
          result |-> TRUE]
    ELSE [state |-> state, result |-> FALSE]

\* Chat::set_message_like: the new state and the returned bool
Chat_set_message_like(state, message_id, user_id, like_type) ==
    IF any_message(state.messages, message_id)
    THEN LET i == find_message(state.messages, message_id)
         IN  [state |-> [state EXCEPT
                            !.messages[i].likes =
                                likes_insert(@, user_id, like_type),
                            !.messages[i].updated_at = now,
                            !.updated_at = now],
              result |-> TRUE]
    ELSE [state |-> state, result |-> FALSE]

\* Chat::remove_message_like: the new state and the returned bool
Chat_remove_message_like(state, message_id, user_id) ==
    IF any_message(state.messages, message_id)
    THEN LET i == find_message(state.messages, message_id)
             removed == user_id \in DOMAIN state.messages[i].likes
         IN  [state |-> IF removed
                        THEN [state EXCEPT
                                 !.messages[i].likes = likes_remove(@, user_id),
                                 !.messages[i].updated_at = now,
                                 !.updated_at = now]
                        ELSE state,
              result |-> removed]
    ELSE [state |-> state, result |-> FALSE]

\* ChatAgentImpl::remove_message, set_message_like, remove_message_like on
\* chat c: r is what the Chat function returns on the initialized state, and
\* the participants are notified when it returns true
ChatAgent_notify_if(c, r) ==
    IF r.result
    THEN /\ chat' = [chat EXCEPT ![c] = Some(r.state)]
         /\ chatMsgs' = chatMsgs (+)
                execute_chat_updates(c, r.state.participants, r.state.updated_at)
         /\ chatResult' = Some(Ok(unit))
    ELSE /\ chat' = [chat EXCEPT ![c] = Some(r.state)]
         /\ chatMsgs' = chatMsgs
         /\ chatResult' = Some(Err("Message not found"))

\* what these operations of a Chat agent leave alone
notChatLikeVars ==
    <<userChats, chatsMade, chatCalls, dups, now, userVars, postVars,
      userChatsResult, userResult, commonVars>>

\* ChatAgentImpl::remove_message, a client call on chat c
RemoveMessage(c, message_id) ==
    /\ likeCalls' = likeCalls + 1
    /\ IF ~IsSome(chat[c])
       THEN /\ chatResult' = Some(Err("Chat not exists"))
            /\ UNCHANGED <<chat, chatMsgs>>
       ELSE ChatAgent_notify_if(c, Chat_remove_message(Unwrap(chat[c]), message_id))
    /\ UNCHANGED notChatLikeVars

\* ChatAgentImpl::set_message_like, a client call on chat c
SetMessageLike(c, message_id, user_id, like_type) ==
    /\ likeCalls' = likeCalls + 1
    /\ IF ~IsSome(chat[c])
       THEN /\ chatResult' = Some(Err("Chat not exists"))
            /\ UNCHANGED <<chat, chatMsgs>>
       ELSE ChatAgent_notify_if(c, Chat_set_message_like(
                Unwrap(chat[c]), message_id, user_id, like_type))
    /\ UNCHANGED notChatLikeVars

\* ChatAgentImpl::remove_message_like, a client call on chat c
RemoveMessageLike(c, message_id, user_id) ==
    /\ likeCalls' = likeCalls + 1
    /\ IF ~IsSome(chat[c])
       THEN /\ chatResult' = Some(Err("Chat not exists"))
            /\ UNCHANGED <<chat, chatMsgs>>
       ELSE ChatAgent_notify_if(c, Chat_remove_message_like(
                Unwrap(chat[c]), message_id, user_id))
    /\ UNCHANGED notChatLikeVars

(***************************************************************************)
(* One Post and one Chat with every mutator called by clients, on the      *)
(* uninitialized entity as well.                                           *)
(***************************************************************************)
LikeCallsLeft == likeCalls + commentsMade + chatCalls < MaxLikeCalls

LikeInputs == {"Like", "Dislike"}

\* ids of comments and messages: the ones minted and one more
TargetIds == 1..2

NextLikes ==
    \/ Tick
    \/ ClientInitPost(PostIdOf[1], "u1", "content")
    \/ CreateChat("u1", {"u2"})
    \/ \E m \in BagToSet(chatMsgs) : m.op = "init_chat" /\ DeliverChatTrigger(m)
    \/ LikeCallsLeft /\ commentsMade < 1 /\ AddComment(PostIdOf[1], "u1", None)
    \/ \E k \in TargetIds : LikeCallsLeft /\ RemoveComment(PostIdOf[1], k)
    \/ \E u \in Users, t \in LikeInputs :
          LikeCallsLeft /\ SetLike(PostIdOf[1], u, t)
    \/ \E u \in Users : LikeCallsLeft /\ RemoveLike(PostIdOf[1], u)
    \/ \E k \in TargetIds, u \in Users, t \in LikeInputs :
          LikeCallsLeft /\ SetCommentLike(PostIdOf[1], k, u, t)
    \/ \E k \in TargetIds, u \in Users :
          LikeCallsLeft /\ RemoveCommentLike(PostIdOf[1], k, u)
    \/ \E c \in ChatIds : LikeCallsLeft /\ AddParticipants(c, {"u3"})
    \/ \E c \in ChatIds : LikeCallsLeft /\ chatCalls < 1 /\ AddMessage(c, "u1")
    \/ \E c \in ChatIds, k \in TargetIds : LikeCallsLeft /\ RemoveMessage(c, k)
    \/ \E c \in ChatIds, k \in TargetIds, u \in Users, t \in LikeInputs :
          LikeCallsLeft /\ SetMessageLike(c, k, u, t)
    \/ \E c \in ChatIds, k \in TargetIds, u \in Users :
          LikeCallsLeft /\ RemoveMessageLike(c, k, u)

SpecLikes == Init /\ [][NextLikes]_vars

(***************************************************************************)
(* C29: Post and Chat are never created lazily.  Every mutator other than  *)
(* init_post / init_chat, called on an uninitialized entity, returns       *)
(* "Post not exists" / "Chat not exists", leaves the entity uninitialized  *)
(* and sends no trigger.                                                   *)
(***************************************************************************)
C29_NoLazyCreation ==
    [][/\ \A p \in PostIds :
            (/\ ~IsSome(post[p])
             /\ \/ \E u \in Users : AddComment(p, u, None)
                \/ \E k \in TargetIds : RemoveComment(p, k)
                \/ \E u \in Users, t \in LikeInputs : SetLike(p, u, t)
                \/ \E u \in Users : RemoveLike(p, u)
                \/ \E k \in TargetIds, u \in Users, t \in LikeInputs :
                      SetCommentLike(p, k, u, t)
                \/ \E k \in TargetIds, u \in Users : RemoveCommentLike(p, k, u))
            => /\ postResult' = Some(Err("Post not exists"))
               /\ ~IsSome(post'[p])
               /\ postMsgs' = postMsgs /\ chatMsgs' = chatMsgs
               /\ userMsgs' = userMsgs
       /\ \A c \in ChatIds :
            (/\ ~IsSome(chat[c])
             /\ \/ \E ids \in SUBSET ChatUsers : AddParticipants(c, ids)
                \/ \E u \in Users : AddMessage(c, u)
                \/ \E k \in TargetIds : RemoveMessage(c, k)
                \/ \E k \in TargetIds, u \in Users, t \in LikeInputs :
                      SetMessageLike(c, k, u, t)
                \/ \E k \in TargetIds, u \in Users : RemoveMessageLike(c, k, u))
            => /\ chatResult' = Some(Err("Chat not exists"))
               /\ ~IsSome(chat'[c])
               /\ postMsgs' = postMsgs /\ chatMsgs' = chatMsgs
               /\ userMsgs' = userMsgs]_vars

\* mutators were refused on the Post and on the Chat, both still
\* uninitialized after as many calls as the behaviour has
C29_Witness ==
    /\ postResult = Some(Err("Post not exists"))
    /\ chatResult = Some(Err("Chat not exists"))
    /\ ~IsSome(post[PostIdOf[1]])
    /\ \A c \in ChatIds : ~IsSome(chat[c])
    /\ likeCalls + commentsMade + chatCalls = MaxLikeCalls
    /\ likeCalls > 0 /\ chatCalls > 0

(***************************************************************************)
(* C30: removing an absent like is a silent success at every scope.        *)
(* Post.remove_like, Post.remove_comment_like and Chat.remove_message_like *)
(* on an initialized entity return success and change nothing when the     *)
(* user has no like on a target that exists, and return an error only when *)
(* the comment or the message does not exist.                              *)
(***************************************************************************)
C30_RemoveAbsentLikeSilent ==
    [][/\ \A p \in PostIds, u \in Users :
            (/\ IsSome(post[p])
             /\ u \notin DOMAIN Unwrap(post[p]).likes
             /\ RemoveLike(p, u))
            => is_ok(Unwrap(postResult')) /\ post' = post
       /\ \A p \in PostIds, k \in TargetIds, u \in Users :
            (IsSome(post[p]) /\ RemoveCommentLike(p, k, u))
            => LET comments == Unwrap(post[p]).comments
               IN  /\ is_ok(Unwrap(postResult')) <=> k \in DOMAIN comments
                   /\ (k \in DOMAIN comments /\ u \notin DOMAIN comments[k].likes)
                          => post' = post
       /\ \A c \in ChatIds, k \in TargetIds, u \in Users :
            (IsSome(chat[c]) /\ RemoveMessageLike(c, k, u))
            => LET messages == Unwrap(chat[c]).messages
                   exists == any_message(messages, k)
               IN  /\ is_ok(Unwrap(chatResult')) <=> exists
                   /\ (exists /\ u \notin
                           DOMAIN messages[find_message(messages, k)].likes)
                          => chat' = chat /\ chatMsgs' = chatMsgs]_vars

\* the like user u holds on post p, on comment k of p, on message k of c
PostLikeOf(p, u) ==
    IF IsSome(post[p]) /\ u \in DOMAIN Unwrap(post[p]).likes
    THEN Some(Unwrap(post[p]).likes[u])
    ELSE None

CommentLikeOf(p, k, u) ==
    IF /\ IsSome(post[p])
       /\ k \in DOMAIN Unwrap(post[p]).comments
       /\ u \in DOMAIN Unwrap(post[p]).comments[k].likes
    THEN Some(Unwrap(post[p]).comments[k].likes[u])
    ELSE None

MessageLikeOf(c, k, u) ==
    IF IsSome(chat[c]) /\ any_message(Unwrap(chat[c]).messages, k)
    THEN LET msg == Unwrap(chat[c]).messages[
                        find_message(Unwrap(chat[c]).messages, k)]
         IN  IF u \in DOMAIN msg.likes THEN Some(msg.likes[u]) ELSE None
    ELSE None

(***************************************************************************)
(* C31: likes are one per target and user, the latest type winning.  On a  *)
(* post, a comment or a message that exists, set_like by u leaves u with   *)
(* the type given and remove_like leaves u with none, the likes of the     *)
(* other users staying as they were; a user's like changes in no other     *)
(* step, but for the removal of the comment or message that bears it; and  *)
(* Post::set_like returns true exactly when the user held a like before.   *)
(***************************************************************************)
C31_LatestLikeWins ==
    [][/\ \A p \in PostIds, u \in Users :
            /\ \A t \in LikeInputs :
                   (IsSome(post[p]) /\ SetLike(p, u, t))
                   => /\ PostLikeOf(p, u)' = Some(t)
                      /\ \A v \in Users \ {u} : PostLikeOf(p, v)' = PostLikeOf(p, v)
                      /\ Post_set_like(Unwrap(post[p]), u, t).result
                             <=> IsSome(PostLikeOf(p, u))
            /\ (IsSome(post[p]) /\ RemoveLike(p, u))
                   => /\ PostLikeOf(p, u)' = None
                      /\ \A v \in Users \ {u} : PostLikeOf(p, v)' = PostLikeOf(p, v)
            /\ PostLikeOf(p, u)' # PostLikeOf(p, u)
                   => \/ RemoveLike(p, u)
                      \/ \E t \in LikeInputs : SetLike(p, u, t)
       /\ \A p \in PostIds, k \in TargetIds, u \in Users :
            LET exists == IsSome(post[p]) /\ k \in DOMAIN Unwrap(post[p]).comments
            IN  /\ \A t \in LikeInputs :
                       (exists /\ SetCommentLike(p, k, u, t))
                       => /\ CommentLikeOf(p, k, u)' = Some(t)
                          /\ \A v \in Users \ {u} :
                                 CommentLikeOf(p, k, v)' = CommentLikeOf(p, k, v)
                /\ (exists /\ RemoveCommentLike(p, k, u))
                       => /\ CommentLikeOf(p, k, u)' = None
                          /\ \A v \in Users \ {u} :
                                 CommentLikeOf(p, k, v)' = CommentLikeOf(p, k, v)
                /\ CommentLikeOf(p, k, u)' # CommentLikeOf(p, k, u)
                       => \/ RemoveCommentLike(p, k, u)
                          \/ \E t \in LikeInputs : SetCommentLike(p, k, u, t)
                          \/ \E j \in TargetIds : RemoveComment(p, j)
       /\ \A c \in ChatIds, k \in TargetIds, u \in Users :
            LET exists == IsSome(chat[c]) /\ any_message(Unwrap(chat[c]).messages, k)
            IN  /\ \A t \in LikeInputs :
                       (exists /\ SetMessageLike(c, k, u, t))
                       => /\ MessageLikeOf(c, k, u)' = Some(t)
                          /\ \A v \in Users \ {u} :
                                 MessageLikeOf(c, k, v)' = MessageLikeOf(c, k, v)
                /\ (exists /\ RemoveMessageLike(c, k, u))
                       => /\ MessageLikeOf(c, k, u)' = None
                          /\ \A v \in Users \ {u} :
                                 MessageLikeOf(c, k, v)' = MessageLikeOf(c, k, v)
                /\ MessageLikeOf(c, k, u)' # MessageLikeOf(c, k, u)
                       => \/ RemoveMessageLike(c, k, u)
                          \/ \E t \in LikeInputs : SetMessageLike(c, k, u, t)
                          \/ RemoveMessage(c, k)]_vars

\* after as many calls as the behaviour has, the two users hold likes of
\* different types on the post and one of them a like on a comment
C31_Witness ==
    /\ likeCalls + commentsMade + chatCalls = MaxLikeCalls
    /\ \E p \in PostIds, k \in TargetIds, u \in Users, v \in Users :
           /\ u # v
           /\ IsSome(PostLikeOf(p, u)) /\ IsSome(PostLikeOf(p, v))
           /\ PostLikeOf(p, u) # PostLikeOf(p, v)
           /\ IsSome(CommentLikeOf(p, k, u))

(***************************************************************************)
(* Long polls: poll_for_updates, UserChatsUpdatesAgentImpl's               *)
(* get_chats_updates and UserTimelineUpdatesAgentImpl's get_posts_updates. *)
(* Times are in the unit of the arguments (milliseconds, and seconds for   *)
(* get_posts_updates); elapsed is now.elapsed() of the Instant taken       *)
(* before the loop.  A fetch returns None, an empty list or a list.        *)
(***************************************************************************)
PollKinds == {"poll_for_updates", "get_chats_updates", "get_posts_updates"}

FetchResults == {None, Some(<<>>), Some(<<"r1">>), Some(<<"r1", "r2">>)}

\* Option::unwrap_or
unwrap_or(opt, default) == IF IsSome(opt) THEN Unwrap(opt) ELSE default

\* max_wait_time.unwrap_or(..) of each loop
max_wait_of(kind, max_wait_time) ==
    IF kind = "get_posts_updates"
    THEN unwrap_or(max_wait_time, 10)
    ELSE unwrap_or(max_wait_time, 10000)

\* iter_wait_time.unwrap_or(..) of each loop; get_posts_updates has no such
\* argument and waits one second
iter_wait_of(kind, iter_wait_time) ==
    CASE kind = "poll_for_updates" -> unwrap_or(iter_wait_time, 1000)
      [] kind = "get_chats_updates" -> unwrap_or(iter_wait_time, 500)
      [] kind = "get_posts_updates" -> 1

\* the lines before the loop
PollStart(kind, updates_since, iter_wait_time, max_wait_time) ==
    /\ poll = None
    /\ poll' = Some([kind |-> kind,
                     since |-> unwrap_or(updates_since, now),
                     max_wait_time |-> max_wait_of(kind, max_wait_time),
                     iter_wait_time |-> iter_wait_of(kind, iter_wait_time),
                     elapsed |-> 0,
                     fetches |-> 0,
                     last |-> None,
                     prior_empty |-> TRUE,
                     same_cursor |-> TRUE,
                     done |-> FALSE,
                     result |-> None])
    /\ UNCHANGED <<dups, now, userVars, chatVars, postVars, resultVars,
                   snapshot, call>>

\* as poll_iteration, with the time elapsed tested against max_wait_time
\* plus two iteration waits
poll_iteration_late(st, res, fetch_time) ==
    LET at == st.elapsed + fetch_time
        deadline == st.max_wait_time + 2 * st.iter_wait_time
        fetched == [st EXCEPT
                       !.fetches = @ + 1,
                       !.last = Some([since |-> st.since, at |-> at, res |-> res,
                                      slept |-> res = Some(<<>>) /\ at < deadline])]
    IN  IF res = Some(<<>>)
        THEN IF at >= deadline
             THEN [fetched EXCEPT !.elapsed = at, !.result = res, !.done = TRUE]
             ELSE [fetched EXCEPT !.elapsed = at + st.iter_wait_time,
                                  !.result = res, !.done = FALSE]
        ELSE [fetched EXCEPT !.elapsed = at, !.result = res, !.done = TRUE]

\* one pass of the loop body of state st, the fetch returning res after
\* fetch_time: the new state.  Of the fetches made it records their number,
\* the last one (the cursor passed, the time elapsed when it returned, what
\* it returned, whether the loop slept after it), whether every one before
\* the last returned an empty list and whether all were passed st.since
poll_iteration(st, res, fetch_time) ==
    LET at == st.elapsed + fetch_time
        Fetched(slept) ==
            [st EXCEPT
                !.fetches = @ + 1,
                !.last = Some([since |-> st.since, at |-> at, res |-> res,
                               slept |-> slept]),
                !.prior_empty =
                    @ /\ (IsSome(st.last) => Unwrap(st.last).res = Some(<<>>)),
                !.same_cursor =
                    @ /\ (IsSome(st.last) => Unwrap(st.last).since = st.since)]
    IN  IF IsSome(res)
        THEN IF Unwrap(res) # <<>>
             THEN [Fetched(FALSE) EXCEPT !.elapsed = at, !.result = res,
                                         !.done = TRUE]
             ELSE IF st.kind = "get_posts_updates"
                  THEN [Fetched(TRUE) EXCEPT
                           !.elapsed = at + st.iter_wait_time,
                           !.result = Some(<<>>),
                           !.done = at + st.iter_wait_time >= st.max_wait_time]
                  ELSE IF at >= st.max_wait_time
                       THEN [Fetched(FALSE) EXCEPT !.elapsed = at,
                                                   !.result = Some(<<>>),
                                                   !.done = TRUE]
                       ELSE [Fetched(TRUE) EXCEPT
                                !.elapsed = at + st.iter_wait_time,
                                !.result = Some(<<>>), !.done = FALSE]
        ELSE [Fetched(FALSE) EXCEPT !.elapsed = at, !.result = None,
                                    !.done = TRUE]

\* the loop runs once more
PollIteration(res, fetch_time) ==
    /\ IsSome(poll)
    /\ ~Unwrap(poll).done
    /\ poll' = Some(poll_iteration(Unwrap(poll), res, fetch_time))
    /\ UNCHANGED <<dups, now, userVars, chatVars, postVars, resultVars,
                   snapshot, call>>

\* the arguments clients pass: every wait up to the bounds, and the defaults
PollArguments ==
    [kind : PollKinds,
     updates_since : {None, Some(0)},
     iter_wait_time : {Some(i) : i \in 1..MaxIterWait},
     max_wait_time : {Some(w) : w \in 0..MaxWait}]
    \cup [kind : PollKinds, updates_since : {None, Some(0)},
          iter_wait_time : {None}, max_wait_time : {None}]

NextPoll ==
    \/ Tick
    \/ \E a \in PollArguments :
          PollStart(a.kind, a.updates_since, a.iter_wait_time, a.max_wait_time)
    \/ \E res \in FetchResults, fetch_time \in 0..MaxFetchTime :
          PollIteration(res, fetch_time)

SpecPoll == Init /\ [][NextPoll]_vars

PollDone == IsSome(poll) /\ Unwrap(poll).done

(***************************************************************************)
(* C32: long-poll outcomes.  No fetch follows one that returned None or a  *)
(* list that is not empty; after None the poll returns None; after a list  *)
(* that is not empty it returns that list without sleeping; it returns an  *)
(* empty list only after a fetch that returned empty when the time elapsed *)
(* was at least max_wait; every fetch is passed the same cursor.           *)
(***************************************************************************)
C32_PollOutcomes ==
    IsSome(poll) =>
        LET st == Unwrap(poll)
        IN  /\ st.same_cursor
            /\ st.prior_empty
            /\ (~st.done /\ IsSome(st.last)) => Unwrap(st.last).res = Some(<<>>)
            /\ st.done =>
                  /\ IsSome(st.last)
                  /\ Unwrap(st.last).res = None => st.result = None
                  /\ (IsSome(Unwrap(st.last).res)
                         /\ Unwrap(Unwrap(st.last).res) # <<>>)
                         => /\ st.result = Unwrap(st.last).res
                            /\ ~Unwrap(st.last).slept
                  /\ st.result = Some(<<>>)
                         => /\ Unwrap(st.last).res = Some(<<>>)
                            /\ Unwrap(st.last).at >= st.max_wait_time

(***************************************************************************)
(* Long polls whose fetch always returns an empty list and takes no time;  *)
(* a loop that has not returned goes on running.                           *)
(***************************************************************************)
NextPollEmpty ==
    \/ \E a \in PollArguments :
          PollStart(a.kind, a.updates_since, a.iter_wait_time, a.max_wait_time)
    \/ PollIteration(Some(<<>>), 0)

SpecPollEmpty ==
    Init /\ [][NextPollEmpty]_vars /\ WF_vars(PollIteration(Some(<<>>), 0))

(***************************************************************************)
(* C33: long-poll termination bound.  With a fetch that always returns an  *)
(* empty list and takes no time, every long poll returns; it returns an    *)
(* empty list, and the time elapsed at the return is at least max_wait and *)
(* at most max_wait plus one iteration wait.                               *)
(***************************************************************************)
C33_PollTerminates ==
    /\ IsSome(poll) ~> PollDone
    /\ [](PollDone =>
            LET st == Unwrap(poll)
            IN  /\ st.result = Some(<<>>)
                /\ st.max_wait_time <= st.elapsed
                /\ st.elapsed <= st.max_wait_time + st.iter_wait_time)

\* a poll has returned after three fetches or more, later than max_wait
C33_Witness ==
    /\ PollDone
    /\ Unwrap(poll).fetches >= 3
    /\ Unwrap(poll).result = Some(<<>>)
    /\ Unwrap(poll).elapsed > Unwrap(poll).max_wait_time

(***************************************************************************)
(* Snapshots.  The bytes are a sequence: the version byte, then the JSON   *)
(* text serde_json writes, written as its tokens: "null" for None, and     *)
(* "{", the value, "}" for Some(value).                                    *)
(***************************************************************************)
SERIALIZATION_VERSION_V1 == 1

\* serde_json::to_vec_pretty of an Option<T>
to_vec_pretty(value) ==
    IF IsSome(value) THEN <<"{", Unwrap(value), "}">> ELSE <<"null">>

\* serde_json::from_slice to an Option<T>
from_slice(data) ==
    IF data = <<"null">>
    THEN Ok(None)
    ELSE IF Len(data) = 3 /\ data[1] = "{" /\ data[3] = "}"
         THEN Ok(Some(data[2]))
         ELSE Err("expected value")

\* snapshot::serialize
snapshot_serialize(value) ==
    Ok(<<SERIALIZATION_VERSION_V1>> \o to_vec_pretty(value))

\* a panic: the call does not return
Panic(message) == <<"Panic", message>>

\* snapshot::deserialize; bytes.split_at(1) panics when bytes is empty
snapshot_deserialize(bytes) ==
    IF Len(bytes) < 1
    THEN Panic("mid > len")
    ELSE LET version == SubSeq(bytes, 1, 1)
             data == SubSeq(bytes, 2, Len(bytes))
         IN  IF version[1] = SERIALIZATION_VERSION_V1
             THEN from_slice(data)
             ELSE Err("Unsupported serialization version")

\* PostAgentImpl::save_snapshot on agent p; the bytes are kept, with the
\* state they were made from
SaveSnapshot(p) ==
    /\ snapshot' = Some([saved |-> Some(snapshot_serialize(post[p])[2]),
                         saved_state |-> post[p],
                         loaded |-> None])
    /\ UNCHANGED <<dups, now, userVars, chatVars, postVars, resultVars,
                   poll, call>>

\* the bytes saved last, none before the first save
SavedBytes ==
    IF IsSome(snapshot) /\ IsSome(Unwrap(snapshot).saved)
    THEN {Unwrap(Unwrap(snapshot).saved)}
    ELSE {}

\* the state the bytes saved last were made from
SavedState == Unwrap(snapshot).saved_state

\* PostAgentImpl::load_snapshot on agent p: loaded is what the call returned,
\* or the panic that ended it
LoadSnapshot(p, bytes) ==
    LET r == snapshot_deserialize(bytes)
        Loaded(outcome) ==
            Some([saved |-> IF IsSome(snapshot) THEN Unwrap(snapshot).saved
                                               ELSE None,
                  saved_state |-> IF IsSome(snapshot)
                                  THEN Unwrap(snapshot).saved_state
                                  ELSE None,
                  loaded |-> Some([bytes |-> bytes, outcome |-> outcome])])
    IN  /\ IF is_ok(r)
           THEN /\ post' = [post EXCEPT ![p] = r[2]]
                /\ snapshot' = Loaded(Ok(unit))
           ELSE /\ UNCHANGED post
                /\ snapshot' = Loaded(r)
        /\ UNCHANGED <<userPosts, updater, timeline, postMsgs, postsMade,
                       commentsMade, postResult, carried, dups, now, userVars,
                       chatVars, resultVars, poll, call>>

\* bytes no save_snapshot has written: none, a version byte alone, other
\* versions, text that is not JSON
BadBytes ==
    {<<>>, <<1>>, <<0>>, <<2, "null">>, <<0, "{", 7, "}">>, <<1, "{">>}

MaxSnapshotInits == 1

SnapshotCallsLeft == likeCalls + commentsMade < MaxLikeCalls - 1

\* init_post sends a trigger each time it succeeds: their number is capped
SnapshotInitsLeft == BagCardinality(postMsgs) < MaxSnapshotInits

NextSnapshot ==
    \/ Tick
    \/ \E u \in Users :
           SnapshotInitsLeft /\ ClientInitPost(PostIdOf[1], u, "content")
    \/ SnapshotCallsLeft /\ AddComment(PostIdOf[1], "u1", None)
    \/ \E u \in Users : SnapshotCallsLeft /\ SetLike(PostIdOf[1], u, "Like")
    \/ SaveSnapshot(PostIdOf[1])
    \/ \E bytes \in BadBytes \cup SavedBytes : LoadSnapshot(PostIdOf[1], bytes)

SpecSnapshot == Init /\ [][NextSnapshot]_vars

(***************************************************************************)
(* C34: snapshot restore failure is contained.  load_snapshot on bytes     *)
(* whose first byte is not 1 and on no bytes at all returns an error and   *)
(* leaves the state of the agent as it was; load_snapshot of the bytes     *)
(* save_snapshot wrote restores the state they were written from, None     *)
(* included.                                                               *)
(***************************************************************************)
C34_SnapshotRestore ==
    [][\A p \in PostIds :
          /\ \A bytes \in BadBytes :
                 ((bytes = <<>> \/ bytes[1] # 1) /\ LoadSnapshot(p, bytes))
                 => /\ post' = post
                    /\ Unwrap(snapshot').loaded # None
                    /\ Unwrap(Unwrap(snapshot').loaded).outcome[1] = "Err"
          /\ \A bytes \in SavedBytes :
                 LoadSnapshot(p, bytes)
                 => /\ post'[p] = SavedState
                    /\ Unwrap(Unwrap(snapshot').loaded).outcome = Ok(unit)]_vars

(***************************************************************************)
(* Queries.  A text is the sequence of its characters.                     *)
(***************************************************************************)
MaxQueryLen == 4

\* the characters of the texts: a space, a double quote, a colon, a letter
\* in both cases
Chars == {" ", "\"", ":", "a", "A"}

\* the texts of at most n characters
Texts(n) == UNION {[1..k -> Chars] : k \in 0..n}

\* char::to_lowercase
char_to_lowercase(c) == IF c = "A" THEN "a" ELSE IF c = "N" THEN "n" ELSE c

\* str::to_lowercase
to_lowercase(text) == [i \in 1..Len(text) |-> char_to_lowercase(text[i])]

\* str::trim: the text without its leading and trailing spaces
RECURSIVE trim(_)
trim(text) ==
    IF text = <<>>
    THEN <<>>
    ELSE IF Head(text) = " "
         THEN trim(Tail(text))
         ELSE IF text[Len(text)] = " "
              THEN trim(SubSeq(text, 1, Len(text) - 1))
              ELSE text

\* the loop of query::tokenize over the characters from position i on
RECURSIVE tokenize_from(_, _, _, _, _)
tokenize_from(query, i, tokens, current, in_quotes) ==
    IF i > Len(query)
    THEN IF current # <<>> THEN Append(tokens, trim(current)) ELSE tokens
    ELSE IF query[i] = " " /\ ~in_quotes
         THEN IF current # <<>>
              THEN tokenize_from(query, i + 1, Append(tokens, trim(current)),
                                 <<>>, in_quotes)
              ELSE tokenize_from(query, i + 1, tokens, current, in_quotes)
         ELSE IF query[i] = "\""
              THEN tokenize_from(query, i + 1, tokens, current, ~in_quotes)
              ELSE tokenize_from(query, i + 1, tokens,
                                 Append(current, query[i]), in_quotes)

\* query::tokenize
tokenize(query) == tokenize_from(query, 1, <<>>, <<>>, FALSE)

\* str::contains for a character
contains_char(text, c) == \E i \in 1..Len(text) : text[i] = c

\* str::split_once(':') where the text has a colon
split_once(text) ==
    LET i == CHOOSE j \in 1..Len(text) :
                 text[j] = ":" /\ \A k \in 1..(j - 1) : text[k] # ":"
    IN  <<SubSeq(text, 1, i - 1), SubSeq(text, i + 1, Len(text))>>

\* the loop of Query::new over the tokens from position i on
RECURSIVE query_from(_, _, _, _)
query_from(tokens, i, terms, field_filters) ==
    IF i > Len(tokens)
    THEN [terms |-> terms, field_filters |-> field_filters]
    ELSE IF contains_char(tokens[i], ":")
         THEN LET fv == split_once(tokens[i])
              IN  query_from(tokens, i + 1, terms,
                             Append(field_filters,
                                    <<to_lowercase(fv[1]), fv[2]>>))
         ELSE query_from(tokens, i + 1, Append(terms, tokens[i]),
                         field_filters)

\* Query::new
Query_new(query) == query_from(tokenize(query), 1, <<>>, <<>>)

\* a call of query::tokenize
Tokenize(query) ==
    /\ call' = Some([function |-> "tokenize", query |-> query,
                     tokens |-> tokenize(query)])
    /\ UNCHANGED <<dups, now, userVars, chatVars, postVars, resultVars,
                   poll, snapshot>>

\* a call of Query::new
QueryNew(query) ==
    /\ call' = Some([function |-> "Query::new", query |-> query,
                     tokens |-> tokenize(query),
                     terms |-> Query_new(query).terms,
                     field_filters |-> Query_new(query).field_filters])
    /\ UNCHANGED <<dups, now, userVars, chatVars, postVars, resultVars,
                   poll, snapshot>>

NextQuery ==
    \/ \E query \in Texts(MaxQueryLen) : Tokenize(query)
    \/ \E query \in Texts(MaxQueryLen) : QueryNew(query)

SpecQuery == Init /\ [][NextQuery]_vars

\* position i of the query is inside a double-quoted literal
InQuotes(query, i) ==
    Cardinality({j \in 1..(i - 1) : query[j] = "\""}) % 2 = 1

\* the positions of the query whose character is pushed to a token:
\* everything but the quotes and the spaces outside them
KeptPositions(query) ==
    {i \in 1..Len(query) :
        /\ query[i] # "\""
        /\ query[i] = " " => InQuotes(query, i)}

\* the tokens written one after the other
RECURSIVE Flatten(_)
Flatten(tokens) ==
    IF tokens = <<>> THEN <<>> ELSE Head(tokens) \o Flatten(Tail(tokens))

\* the kept characters of the query in their order
RECURSIVE KeptText(_, _)
KeptText(query, i) ==
    IF i > Len(query)
    THEN <<>>
    ELSE IF i \in KeptPositions(query)
         THEN <<query[i]>> \o KeptText(query, i + 1)
         ELSE KeptText(query, i + 1)

(***************************************************************************)
(* C36: query tokenization.  tokenize splits on the spaces outside double  *)
(* quotes, makes no empty token, removes the quotes and keeps every space  *)
(* inside a quoted literal (leading, inner and trailing) in the token;     *)
(* Query::new makes of each token with a ':' a field filter split at the   *)
(* first ':' with the field name in lower case, of every other token a     *)
(* free term.                                                              *)
(***************************************************************************)
C36_Tokenization ==
    IsSome(call) /\ Unwrap(call).function \in {"tokenize", "Query::new"}
    => LET c == Unwrap(call)
           withColon == SelectSeq(c.tokens, LAMBDA t : contains_char(t, ":"))
       IN  /\ \A i \in 1..Len(c.tokens) :
                  /\ c.tokens[i] # <<>>
                  /\ ~contains_char(c.tokens[i], "\"")
           /\ Flatten(c.tokens) = KeptText(c.query, 1)
           /\ c.function = "Query::new"
              => /\ c.terms = SelectSeq(c.tokens,
                                        LAMBDA t : ~contains_char(t, ":"))
                 /\ Len(c.field_filters) = Len(withColon)
                 /\ \A i \in 1..Len(withColon) :
                        /\ c.field_filters[i][1] =
                               to_lowercase(split_once(withColon[i])[1])
                        /\ c.field_filters[i][2] = split_once(withColon[i])[2]
                        /\ ~contains_char(c.field_filters[i][1], ":")

(***************************************************************************)
(* The query matchers.  The entities given to a matcher carry the fields   *)
(* it reads, their texts as sequences of characters.                       *)
(***************************************************************************)
MaxTokens == 2

\* str::contains for a text
contains(text, pattern) ==
    \E i \in 0..(Len(text) - Len(pattern)) :
        SubSeq(text, i + 1, i + Len(pattern)) = pattern

\* query::text_matches
text_matches(text, query) ==
    query = <<"*">> \/ contains(to_lowercase(text), to_lowercase(query))

\* query::text_exact_matches
text_exact_matches(text, query) == query = <<"*">> \/ text = query

\* query::opt_text_matches
opt_text_matches(text, query) ==
    query = <<"*">>
    \/ (IsSome(text)
        /\ contains(to_lowercase(Unwrap(text)), to_lowercase(query)))

\* query::opt_text_exact_matches
opt_text_exact_matches(text, query) ==
    query = <<"*">> \/ (IsSome(text) /\ Unwrap(text) = query)

\* the field names the matchers know
f_user_id == <<"u", "s", "e", "r", "-", "i", "d">>
f_userid == <<"u", "s", "e", "r", "i", "d">>
f_name == <<"n", "a", "m", "e">>
f_email == <<"e", "m", "a", "i", "l">>
f_created_by == <<"c", "r", "e", "a", "t", "e", "d", "-", "b", "y">>
f_createdby == <<"c", "r", "e", "a", "t", "e", "d", "b", "y">>
f_content == <<"c", "o", "n", "t", "e", "n", "t">>
f_connection_type ==
    <<"c", "o", "n", "n", "e", "c", "t", "i", "o", "n", "-", "t", "y", "p", "e">>
f_connectiontype ==
    <<"c", "o", "n", "n", "e", "c", "t", "i", "o", "n", "t", "y", "p", "e">>
f_comments == <<"c", "o", "m", "m", "e", "n", "t", "s">>
f_participants ==
    <<"p", "a", "r", "t", "i", "c", "i", "p", "a", "n", "t", "s">>

\* the match of UserQueryMatcher::matches on a field filter
User_filter_matches(u, field, value) ==
    LET f == to_lowercase(field)
    IN  IF f \in {f_user_id, f_userid}
        THEN text_exact_matches(u.user_id, value)
        ELSE IF f = f_name
             THEN opt_text_matches(u.name, value)
             ELSE IF f = f_email
                  THEN opt_text_exact_matches(u.email, value)
                  ELSE FALSE

\* the match of UserQueryMatcher::matches on a term
User_term_matches(u, term) ==
    \/ text_matches(u.user_id, term)
    \/ opt_text_matches(u.name, term)
    \/ opt_text_matches(u.email, term)

\* UserQueryMatcher::matches
UserQueryMatcher_matches(query, u) ==
    IF \E i \in 1..Len(query.field_filters) :
           ~User_filter_matches(u, query.field_filters[i][1],
                                  query.field_filters[i][2])
    THEN FALSE
    ELSE IF query.terms = <<>>
         THEN TRUE
         ELSE \A i \in 1..Len(query.terms) :
                  User_term_matches(u, query.terms[i])

\* the match of matches_post on a field filter
Post_filter_matches(p, field, value) ==
    IF field \in {f_created_by, f_createdby}
    THEN text_exact_matches(p.created_by, value)
    ELSE IF field = f_content
         THEN text_matches(p.content, value)
         ELSE IF field \in {f_connection_type, f_connectiontype}
              THEN TRUE
              ELSE IF field = f_comments
                   THEN \E c \in p.comments : text_matches(c, value)
                   ELSE FALSE

\* the match of matches_post on a term
Post_term_matches(p, term) == text_matches(p.content, term)

\* post::matches_post
matches_post(p, query) ==
    IF \E i \in 1..Len(query.field_filters) :
           ~Post_filter_matches(p, query.field_filters[i][1],
                                  query.field_filters[i][2])
    THEN FALSE
    ELSE IF query.terms = <<>>
         THEN TRUE
         ELSE \A i \in 1..Len(query.terms) :
                  Post_term_matches(p, query.terms[i])

\* the match of ChatQueryMatcher::matches_chat on a field filter
Chat_filter_matches(c, field, value) ==
    IF field \in {f_created_by, f_createdby}
    THEN text_exact_matches(c.created_by, value)
    ELSE IF field = f_participants
         THEN \E p \in c.participants : text_exact_matches(p, value)
         ELSE FALSE

\* the match of ChatQueryMatcher::matches_chat on a term
Chat_term_matches(c, term) ==
    \/ text_matches(c.created_by, term)
    \/ \E p \in c.participants : text_exact_matches(p, term)

\* ChatQueryMatcher::matches_chat
ChatQueryMatcher_matches_chat(query, c) ==
    IF \E i \in 1..Len(query.field_filters) :
           ~Chat_filter_matches(c, query.field_filters[i][1],
                                  query.field_filters[i][2])
    THEN FALSE
    ELSE IF query.terms = <<>>
         THEN TRUE
         ELSE \A i \in 1..Len(query.terms) :
                  Chat_term_matches(c, query.terms[i])

\* the texts of the entities and of the queries
t_a == <<"a">>
t_b == <<"b">>
t_Ab == <<"A", "b">>
QueryValues == {<<"*">>, t_a, t_Ab}

\* the field names written in queries: the known ones, one in capitals, one
\* that no matcher knows
UserFields == {f_user_id, f_userid, f_name, <<"N", "a", "m", "e">>, f_email,
               <<"x">>}
PostFields == {f_created_by, f_createdby, f_content, f_connection_type,
               f_connectiontype, f_comments, <<"x">>}
ChatFields == {f_created_by, f_createdby, f_participants, <<"x">>}

\* the tokens of a query over the fields: field:value and free terms
QueryTokens(fields) ==
    {f \o <<":">> \o v : f \in fields, v \in QueryValues} \cup QueryValues

\* the token lists of at most n tokens
TokenLists(fields, n) ==
    UNION {[1..k -> QueryTokens(fields)] : k \in 0..n}

\* the users, posts and chats given to the matchers
MatchUsers ==
    [user_id : {t_a, t_Ab}, name : {None, Some(t_a), Some(t_Ab)},
     email : {None, Some(t_b)}]
MatchPosts ==
    [created_by : {t_a, t_b}, content : {<<>>, t_a, t_Ab},
     comments : {{}, {t_a}, {t_b, t_Ab}}]
MatchChats ==
    {c \in [created_by : {t_a, t_b},
            participants : SUBSET {t_a, t_b, t_Ab}] :
        c.created_by \in c.participants}

\* the arguments of a call of a matcher on a query of at most n tokens,
\* before it has run
MatchCalls(n) ==
    {[function |-> "UserQueryMatcher::matches", entity |-> e,
      query |-> query_from(tokens, 1, <<>>, <<>>), result |-> None] :
        e \in MatchUsers, tokens \in TokenLists(UserFields, n)}
    \cup
    {[function |-> "matches_post", entity |-> e,
      query |-> query_from(tokens, 1, <<>>, <<>>), result |-> None] :
        e \in MatchPosts, tokens \in TokenLists(PostFields, n)}
    \cup
    {[function |-> "ChatQueryMatcher::matches_chat", entity |-> e,
      query |-> query_from(tokens, 1, <<>>, <<>>), result |-> None] :
        e \in MatchChats, tokens \in TokenLists(ChatFields, n)}

InitMatch == InitAgents /\ \E c \in MatchCalls(MaxTokens) : call = Some(c)

\* the call in progress is one of function and has not returned
MatchPending(function) ==
    /\ IsSome(call)
    /\ Unwrap(call).function = function
    /\ Unwrap(call).result = None

\* UserQueryMatcher::matches runs
UserMatches ==
    /\ MatchPending("UserQueryMatcher::matches")
    /\ call' = Some([Unwrap(call) EXCEPT
                        !.result = Some(UserQueryMatcher_matches(
                                            Unwrap(call).query,
                                            Unwrap(call).entity))])
    /\ UNCHANGED <<dups, now, userVars, chatVars, postVars, resultVars,
                   poll, snapshot>>

\* matches_post runs
PostMatches ==
    /\ MatchPending("matches_post")
    /\ call' = Some([Unwrap(call) EXCEPT
                        !.result = Some(matches_post(Unwrap(call).entity,
                                                     Unwrap(call).query))])
    /\ UNCHANGED <<dups, now, userVars, chatVars, postVars, resultVars,
                   poll, snapshot>>

\* ChatQueryMatcher::matches_chat runs
ChatMatches ==
    /\ MatchPending("ChatQueryMatcher::matches_chat")
    /\ call' = Some([Unwrap(call) EXCEPT
                        !.result = Some(ChatQueryMatcher_matches_chat(
                                            Unwrap(call).query,
                                            Unwrap(call).entity))])
    /\ UNCHANGED <<dups, now, userVars, chatVars, postVars, resultVars,
                   poll, snapshot>>

NextMatch == UserMatches \/ PostMatches \/ ChatMatches

SpecMatch == InitMatch /\ [][NextMatch]_vars

\* the field names a matcher defines
DefinedFields(function) ==
    IF function = "UserQueryMatcher::matches"
    THEN {f_user_id, f_userid, f_name, f_email}
    ELSE IF function = "matches_post"
         THEN {f_created_by, f_createdby, f_content, f_connection_type,
               f_connectiontype, f_comments}
         ELSE {f_created_by, f_createdby, f_participants}

\* the comparison of a defined field of the entity with a value
FieldCompares(function, e, field, value) ==
    IF function = "UserQueryMatcher::matches"
    THEN User_filter_matches(e, field, value)
    ELSE IF function = "matches_post"
         THEN Post_filter_matches(e, field, value)
         ELSE Chat_filter_matches(e, field, value)

\* a term matches one of the searchable fields of the entity
TermMatches(function, e, term) ==
    IF function = "UserQueryMatcher::matches"
    THEN User_term_matches(e, term)
    ELSE IF function = "matches_post"
         THEN Post_term_matches(e, term)
         ELSE Chat_term_matches(e, term)

(***************************************************************************)
(* C35: query evaluation.  For the User, Post and Chat matchers an entity  *)
(* matches a query exactly when every field filter passes and every free   *)
(* term matches one of the searchable fields: a filter on a field name the *)
(* entity does not define never passes, a filter of value "*" on a defined *)
(* field passes whatever the field holds; with no terms the filters        *)
(* decide, and the empty query matches every entity.                       *)
(***************************************************************************)
C35_QueryEvaluation ==
    IsSome(call) /\ Unwrap(call).function \in
        {"UserQueryMatcher::matches", "matches_post",
         "ChatQueryMatcher::matches_chat"}
        /\ IsSome(Unwrap(call).result)
    => LET c == Unwrap(call)
           q == c.query
           Passes(filter) ==
               /\ filter[1] \in DefinedFields(c.function)
               /\ \/ filter[2] = <<"*">>
                  \/ FieldCompares(c.function, c.entity, filter[1], filter[2])
       IN  /\ Unwrap(c.result)
                  <=> /\ \A i \in 1..Len(q.field_filters) :
                             Passes(q.field_filters[i])
                      /\ \A i \in 1..Len(q.terms) :
                             TermMatches(c.function, c.entity, q.terms[i])
           /\ (q.field_filters = <<>> /\ q.terms = <<>>) => Unwrap(c.result)

(***************************************************************************)
(* Sharding.                                                               *)
(***************************************************************************)
MaxShards == 8

\* the ids given to get_shard_number
ShardIds == {"u1", "u2", "u3", "test_user", "any_user", "consistent_user"}

\* md5::compute: the 16 bytes of the digest of the id
md5_compute(id) ==
    [
     u1 |-> <<228, 119, 76, 221, 160, 121, 63, 134, 65, 78, 139, 145, 64, 187, 109, 180>>,
     u2 |-> <<39, 12, 27, 8, 79, 63, 20, 110, 181, 120, 112, 117, 21, 141, 156, 83>>,
     u3 |-> <<83, 42, 123, 142, 3, 40, 168, 208, 90, 142, 98, 88, 178, 139, 154, 54>>,
     test_user |-> <<157, 161, 248, 224, 174, 204, 157, 134, 139, 173, 17, 81, 41, 112, 106, 119>>,
     any_user |-> <<56, 205, 130, 172, 249, 159, 161, 44, 20, 250, 152, 201, 153, 231, 36, 199>>,
     consistent_user |-> <<175, 198, 112, 14, 136, 26, 163, 93, 106, 114, 124, 209, 199, 195, 11, 187>>
    ][id]

\* u64::from_le_bytes(bytes) % n, for n > 0: the first byte is the least
\* significant; the remainder is taken at every byte, from the most
\* significant down, which gives the remainder of the 64-bit number
RECURSIVE from_le_bytes_mod(_, _)
from_le_bytes_mod(bytes, n) ==
    IF bytes = <<>>
    THEN 0
    ELSE (from_le_bytes_mod(Tail(bytes), n) * 256 + Head(bytes)) % n

\* as shard_of_digest, the bytes taken in the order of u64::from_be_bytes:
\* the first byte the most significant
shard_of_digest_be(digest, n) ==
    from_le_bytes_mod([i \in 1..8 |-> digest[9 - i]], n)

\* hash % num_of_shards for the hash made of digest[0..8]
shard_of_digest(digest, n) == from_le_bytes_mod(SubSeq(digest, 1, 8), n)

\* get_shard_number: the shard, or the panic of the assert
get_shard_number(id, num_of_shards) ==
    IF ~(num_of_shards > 0)
    THEN Panic("Number of shards must be greater than 0")
    ELSE Ok(shard_of_digest(md5_compute(id), num_of_shards))

\* the arguments of the calls of get_shard_number, before the first
ShardCalls ==
    {[function |-> "get_shard_number", id |-> id, num_of_shards |-> n,
      result |-> None, again |-> None] :
        id \in ShardIds, n \in 0..MaxShards}

InitShard == InitAgents /\ \E c \in ShardCalls : call = Some(c)

\* the first call of get_shard_number(id, num_of_shards)
GetShardNumber ==
    /\ IsSome(call)
    /\ Unwrap(call).function = "get_shard_number"
    /\ Unwrap(call).result = None
    /\ call' = Some([Unwrap(call) EXCEPT
                        !.result = Some(get_shard_number(
                                            Unwrap(call).id,
                                            Unwrap(call).num_of_shards))])
    /\ UNCHANGED <<dups, now, userVars, chatVars, postVars, resultVars,
                   poll, snapshot>>

\* a second call with the same arguments
GetShardNumberAgain ==
    /\ IsSome(call)
    /\ Unwrap(call).function = "get_shard_number"
    /\ IsSome(Unwrap(call).result)
    /\ Unwrap(call).again = None
    /\ call' = Some([Unwrap(call) EXCEPT
                        !.again = Some(get_shard_number(
                                           Unwrap(call).id,
                                           Unwrap(call).num_of_shards))])
    /\ UNCHANGED <<dups, now, userVars, chatVars, postVars, resultVars,
                   poll, snapshot>>

NextShard == GetShardNumber \/ GetShardNumberAgain

SpecShard == InitShard /\ [][NextShard]_vars

\* 256^k modulo n
RECURSIVE Pow256Mod(_, _)
Pow256Mod(k, n) == IF k = 0 THEN 1 % n ELSE (Pow256Mod(k - 1, n) * 256) % n

\* the sum of the first k bytes, byte i weighing 256^(i-1), modulo n
RECURSIVE LowBytesMod(_, _, _)
LowBytesMod(digest, k, n) ==
    IF k = 0
    THEN 0
    ELSE (LowBytesMod(digest, k - 1, n)
              + (digest[k] % n) * Pow256Mod(k - 1, n)) % n

(***************************************************************************)
(* C37: get_shard_number(id, n) is a pure function.  For n > 0 two calls   *)
(* return the same value, the value is in [0, n) and is the low 64 bits of *)
(* the hash of the id, read little-endian, modulo n, so it is 0 for n = 1; *)
(* for n = 0 the call panics and returns no value.                         *)
(***************************************************************************)
C37_ShardNumber ==
    IsSome(call) /\ Unwrap(call).function = "get_shard_number"
        /\ IsSome(Unwrap(call).result)
    => LET c == Unwrap(call)
           r == Unwrap(c.result)
       IN  /\ IsSome(c.again) => Unwrap(c.again) = r
           /\ c.num_of_shards > 0
              => /\ is_ok(r)
                 /\ r[2] \in 0..(c.num_of_shards - 1)
                 /\ r[2] = LowBytesMod(md5_compute(c.id), 8, c.num_of_shards)
                 /\ c.num_of_shards = 1 => r[2] = 0
           /\ c.num_of_shards = 0 => r[1] = "Panic"

C37_Witness ==
    /\ IsSome(call)
    /\ Unwrap(call).function = "get_shard_number"
    /\ Unwrap(call).num_of_shards > 1
    /\ IsSome(Unwrap(call).again)
    /\ is_ok(Unwrap(Unwrap(call).again))
    /\ Unwrap(Unwrap(call).again)[2] > 0

(***************************************************************************)
(* C38: the mirror exchange terminates.  After the client calls           *)
(* connect_user / disconnect_user made on any users, under fair delivery   *)
(* the system reaches again and again, and so after the last call, a state *)
(* with no connect_user / disconnect_user trigger in flight: the mirrored  *)
(* triggers do not bounce between two User agents forever, also not after  *)
(* a connect followed at once by a disconnect of the same edge.            *)
(***************************************************************************)
C38_MirrorExchangeTerminates == []<>NoUserTriggerInFlight

\* the comments reached from comment c in exactly n steps along
\* parent_comment_id (none or one)
RECURSIVE AncestorAt(_, _, _)
AncestorAt(comments, c, n) ==
    IF n = 0
    THEN {c}
    ELSE UNION {IF IsSome(comments[a].parent_comment_id)
                THEN {Unwrap(comments[a].parent_comment_id)} \cap DOMAIN comments
                ELSE {} : a \in AncestorAt(comments, c, n - 1)}

(***************************************************************************)
(* C39: the comments of a post are a forest.  In every reachable state of  *)
(* a post the parent_comment_id of every comment is None or the id of a    *)
(* comment that the post holds, and no comment is reached from itself      *)
(* along the parents, after any add_comment and remove_comment calls.      *)
(***************************************************************************)
C39_CommentForest ==
    \A p \in PostIds :
        IsSome(post[p])
        => LET comments == Unwrap(post[p]).comments
           IN  \A c \in DOMAIN comments :
                   /\ \/ comments[c].parent_comment_id = None
                      \/ /\ IsSome(comments[c].parent_comment_id)
                         /\ Unwrap(comments[c].parent_comment_id)
                                \in DOMAIN comments
                   /\ \A n \in 1..Cardinality(DOMAIN comments) :
                          c \notin AncestorAt(comments, c, n)

\* after a remove_comment that succeeded, of four comments made the post
\* holds a reply and its parent
C39_Witness ==
    \E p \in PostIds :
        /\ IsSome(post[p])
        /\ commentsMade = MaxComments
        /\ postResult = Some(Ok(unit))
        /\ LET comments == Unwrap(post[p]).comments
           IN  /\ Cardinality(DOMAIN comments) = 2
               /\ \E c \in DOMAIN comments, k \in DOMAIN comments :
                      comments[c].parent_comment_id = Some(k)

(***************************************************************************)
(* Creation of posts and chats through UserPosts and UserChats, at one     *)
(* reading of the clock, with the mutators clients call before the entity  *)
(* is initialized, and fair delivery of the triggers.                      *)
(***************************************************************************)
NextCreate ==
    \/ \E u \in Users : CreatePost(u)
    \/ \E u \in Users, ids \in SUBSET ChatUsers : CreateChat(u, ids)
    \/ \E p \in PostIds, u \in Users :
          post[p] = None /\ AddComment(p, u, None)
    \/ \E c \in ChatIds, u \in Users : chat[c] = None /\ AddMessage(c, u)
    \/ \E m \in BagToSet(postMsgs) : DeliverPostTrigger(m)
    \/ \E m \in BagToSet(postMsgs) : RedeliverPostTrigger(m)
    \/ \E m \in BagToSet(chatMsgs) : DeliverChatTrigger(m)
    \/ \E m \in BagToSet(chatMsgs) : RedeliverChatTrigger(m)

DeliverSomeChatTrigger == \E m \in BagToSet(chatMsgs) : DeliverChatTrigger(m)

FairChatDelivery == WF_vars(DeliverSomeChatTrigger)

SpecCreateLive ==
    Init /\ [][NextCreate]_vars /\ FairPostDelivery /\ FairChatDelivery

\* the post ids in the list of UserPosts(u), in its order
PostRefIds(u) ==
    IF IsSome(userPosts[u])
    THEN [i \in 1..Len(Unwrap(userPosts[u]).posts) |->
              Unwrap(userPosts[u]).posts[i].post_id]
    ELSE <<>>

\* the chat ids in the list of UserChats(u), in its order
ChatRefIds(u) ==
    IF IsSome(userChats[u])
    THEN [i \in 1..Len(Unwrap(userChats[u]).chats) |->
              Unwrap(userChats[u]).chats[i].chat_id]
    ELSE <<>>

\* no value occurs twice in the sequence
Unique(ids) ==
    \A i \in 1..Len(ids), j \in 1..Len(ids) : ids[i] = ids[j] => i = j

(***************************************************************************)
(* C40: creation is asynchronous and completes.  When create_post on       *)
(* UserPosts(u) returns post id p, and create_chat on UserChats(u) chat id *)
(* c, the reference is in the list of u while the entity is not            *)
(* initialized: its mutators fail with "not exists".  Under fair delivery  *)
(* Post p becomes initialized with created_by = u, and Chat c with creator *)
(* u and the participants asked for plus u: the trigger of the creation    *)
(* carries them, the entity is initialized from the trigger once it is     *)
(* delivered, which happens, and keeps them.  The ids in a UserPosts list  *)
(* and in a UserChats list are unique.                                     *)
(***************************************************************************)
C40_AsynchronousCreation ==
    /\ [][\A u \in Users :
              (postsMade < MaxPosts /\ CreatePost(u))
              => LET p == PostIdOf[postsMade + 1]
                 IN  /\ \E i \in 1..Len(PostRefIds(u)') : PostRefIds(u)'[i] = p
                     /\ post'[p] = None
                     /\ BagIn(InitPostTrigger(p, u, "content"), postMsgs')]_vars
    /\ [][\A u \in Users, ids \in SUBSET ChatUsers :
              (chatsMade < MaxChats /\ ids \ {u} # {} /\ CreateChat(u, ids))
              => LET c == ChatIdOf[chatsMade + 1]
                 IN  /\ \E i \in 1..Len(ChatRefIds(u)') : ChatRefIds(u)'[i] = c
                     /\ chat'[c] = None
                     /\ BagIn(InitChatTrigger(c, ids \ {u}, u, now), chatMsgs')]_vars
    /\ [][\A p \in PostIds, u \in Users :
              (post[p] = None /\ AddComment(p, u, None))
              => /\ postResult' = Some(Err("Post not exists"))
                 /\ post'[p] = None]_vars
    /\ [][\A c \in ChatIds, u \in Users :
              (chat[c] = None /\ AddMessage(c, u))
              => /\ chatResult' = Some(Err("Chat not exists"))
                 /\ chat'[c] = None]_vars
    /\ [][\A m \in BagToSet(postMsgs) :
              (/\ m.op = "init_post"
               /\ post[m.to] = None
               /\ DeliverPostTrigger(m) \/ RedeliverPostTrigger(m))
              => /\ IsSome(post'[m.to])
                 /\ Unwrap(post'[m.to]).created_by = m.user_id]_vars
    /\ [][\A m \in BagToSet(chatMsgs) :
              (/\ m.op = "init_chat"
               /\ chat[m.to] = None
               /\ DeliverChatTrigger(m) \/ RedeliverChatTrigger(m))
              => /\ IsSome(chat'[m.to])
                 /\ Unwrap(chat'[m.to]).created_by = m.created_by
                 /\ Unwrap(chat'[m.to]).participants
                        = m.participants_ids \cup {m.created_by}]_vars
    /\ [][/\ \A p \in PostIds :
                IsSome(post[p])
                => /\ IsSome(post'[p])
                   /\ Unwrap(post'[p]).created_by = Unwrap(post[p]).created_by
            /\ \A c \in ChatIds :
                IsSome(chat[c])
                => /\ IsSome(chat'[c])
                   /\ Unwrap(chat'[c]).created_by = Unwrap(chat[c]).created_by
                   /\ Unwrap(chat'[c]).participants
                          = Unwrap(chat[c]).participants]_vars
    /\ \A p \in PostIds :
           (\E m \in BagToSet(postMsgs) : m.op = "init_post" /\ m.to = p)
               ~> IsSome(post[p])
    /\ \A c \in ChatIds :
           (\E m \in BagToSet(chatMsgs) : m.op = "init_chat" /\ m.to = c)
               ~> IsSome(chat[c])
    /\ [](\A u \in Users : Unique(PostRefIds(u)))
    /\ [](\A u \in ChatUsers : Unique(ChatRefIds(u)))

\* both posts of u1 and a chat of u2 with u1 and u3 are initialized, after
\* a mutator failed on an entity not yet initialized, and the chat is in
\* the list of a participant as well
C40_Witness ==
    /\ PostRefIds("u1") = <<"p1", "p2">>
    /\ IsSome(post["p1"]) /\ Unwrap(post["p1"]).created_by = "u1"
    /\ IsSome(post["p2"]) /\ Unwrap(post["p2"]).created_by = "u1"
    /\ IsSome(chat["c1"])
    /\ Unwrap(chat["c1"]).created_by = "u2"
    /\ Unwrap(chat["c1"]).participants = {"u1", "u2", "u3"}
    /\ ChatRefIds("u2") = <<"c1">>
    /\ ChatRefIds("u3") = <<"c1">>
    /\ chatResult = Some(Err("Chat not exists"))

====
